---- MODULE Spec2Model ----
(***************************************************************************)
(* RouterOS API client (mikrotik_api.py, class MikroTikAPI) and the        *)
(* temporary-credential manager built on it (mikrotik_manager.py, class    *)
(* MikroTikManager).                                                       *)
(*                                                                         *)
(* Words are strings.  A transport is the sequence of words the device has *)
(* sent and the client has not read yet (wire); a read past its end is a   *)
(* socket timeout.  Every _send_command call is one step: the words are    *)
(* handed to the transport, the device appends its answer, and the reader  *)
(* loop of _send_command runs over what is on the wire.                    *)
(***************************************************************************)
EXTENDS Integers, Sequences, FiniteSets, TLC

VARIABLES
    mgr,         \* MikroTikManager: service_user, service_pass, api_port, use_tls
    dev,         \* the device: emptyTerm = it ends every sentence with an empty word
    sess,        \* session name -> MikroTikAPI object (or NoApi)
    wire,        \* session name -> words sent by the device and not read yet
    transport,   \* session name -> "none" | "open" | "closed" (the socket itself)
    hist,        \* session name -> what happened on the object, in order
    pc,          \* position of the running operation
    top,         \* the public operation that was called
    args,        \* its arguments
    frame,       \* its local variables
    result,      \* the record it returned (NoResult until it returns)
    ncalls,      \* number of calls made by the direct client of one MikroTikAPI
    upd          \* the settings update in progress: its position and its form

vars == <<mgr, dev, sess, wire, transport, hist, pc, top, args, frame, result, ncalls,
          upd>>

----------------------------------------------------------------------------
(* Bounds and input sets *)

\* calls the direct client of a MikroTikAPI object makes in one behaviour
MaxCalls == 4
\* the longest part of an answer the device sends before it goes silent
MaxCut == 1

\* the longest response stream the reader of _send_command is run on
MaxStream == 5

\* the longest word (in characters) written and read back through the codec
MaxWordLen == 2
\* the most bytes that lie behind the written ones on the byte stream
MaxAfter == 1

Sessions == {"probe", "svc", "temp"}

Host == "10.0.0.1"
RouterName == "gw-1"

----------------------------------------------------------------------------
(* Python string and dict helpers *)

StartsWith(w, p) == Len(w) >= Len(p) /\ SubSeq(w, 1, Len(p)) = p

RECURSIVE FindEq(_, _)
FindEq(s, i) ==
    IF i > Len(s) THEN 0
    ELSE IF SubSeq(s, i, i) = "=" THEN i
    ELSE FindEq(s, i + 1)

\* s.partition("="): <<before, after>> of the first "="
Partition(s) ==
    LET i == FindEq(s, 1)
    IN  IF i = 0 THEN <<s, "">>
        ELSE <<SubSeq(s, 1, i - 1), SubSeq(s, i + 1, Len(s))>>

Digit(d) == SubSeq("0123456789", d + 1, d + 1)

RECURSIVE Str(_)
\* str(n) for n >= 0
Str(n) == IF n < 10 THEN Digit(n) ELSE Str(n \div 10) \o Digit(n % 10)

\* f"{n:02d}" for n >= 0
Fmt02d(n) == IF n < 10 THEN "0" \o Str(n) ELSE Str(n)

\* a dict is a function from keys to values; {} is the function with no key
EmptyDict == [k \in {} |-> ""]
DictSet(d, k, v) == (k :> v) @@ d
\* d.get(k) or the default: an optional value is a sequence of length 0 or 1
DictGet(d, k) == IF k \in DOMAIN d THEN <<d[k]>> ELSE <<>>
\* Python truth of an optional string: None and "" are false
Truthy(o) == o # <<>> /\ o[1] # ""
\* a or b
OrElse(a, b) == IF Truthy(a) THEN a ELSE b

----------------------------------------------------------------------------
(* MikroTikAPI: the reader loop of _send_command *)

TimedOut == "timed out"

RECURSIVE ReadReplyAttrs_DropsControl(_, _)
\* the inner loop of a !re sentence without the push-back of line 163
ReadReplyAttrs_DropsControl(stream, data) ==
    IF stream = <<>>
    THEN [st |-> "exc", data |-> data, rest |-> <<>>, next_control |-> <<>>]
    ELSE LET attr == Head(stream)
             rest == Tail(stream)
         IN  IF attr = ""
             THEN [st |-> "end", data |-> data, rest |-> rest, next_control |-> <<>>]
             ELSE IF StartsWith(attr, "=")
             THEN LET kv == Partition(SubSeq(attr, 2, Len(attr)))
                  IN  ReadReplyAttrs_DropsControl(rest, DictSet(data, kv[1], kv[2]))
             ELSE IF StartsWith(attr, "!")
             THEN [st |-> "end", data |-> data, rest |-> rest, next_control |-> <<>>]
             ELSE ReadReplyAttrs_DropsControl(rest, data)

RECURSIVE ReadReplyAttrs(_, _)
\* the inner loop of a !re sentence
ReadReplyAttrs(stream, data) ==
    IF stream = <<>>
    THEN [st |-> "exc", data |-> data, rest |-> <<>>, next_control |-> <<>>]
    ELSE LET attr == Head(stream)
             rest == Tail(stream)
         IN  IF attr = ""
             THEN [st |-> "end", data |-> data, rest |-> rest, next_control |-> <<>>]
             ELSE IF StartsWith(attr, "=")
             THEN LET kv == Partition(SubSeq(attr, 2, Len(attr)))
                  IN  ReadReplyAttrs(rest, DictSet(data, kv[1], kv[2]))
             ELSE IF StartsWith(attr, "!")
             THEN [st |-> "end", data |-> data, rest |-> rest, next_control |-> <<attr>>]
             ELSE ReadReplyAttrs(rest, data)

RECURSIVE ReadTrapAttrs_IgnoresMessage(_, _)
\* the inner loop of a !trap or !fatal sentence without lines 175-176
ReadTrapAttrs_IgnoresMessage(stream, error_msg) ==
    IF stream = <<>>
    THEN [st |-> "exc", msg |-> error_msg, rest |-> <<>>]
    ELSE LET attr == Head(stream)
             rest == Tail(stream)
         IN  IF attr = "" \/ StartsWith(attr, "!")
             THEN [st |-> "end", msg |-> error_msg, rest |-> rest]
             ELSE ReadTrapAttrs_IgnoresMessage(rest, error_msg)

RECURSIVE ReadTrapAttrs(_, _)
\* the inner loop of a !trap or !fatal sentence
ReadTrapAttrs(stream, error_msg) ==
    IF stream = <<>>
    THEN [st |-> "exc", msg |-> error_msg, rest |-> <<>>]
    ELSE LET attr == Head(stream)
             rest == Tail(stream)
         IN  IF attr = "" \/ StartsWith(attr, "!")
             THEN [st |-> "end", msg |-> error_msg, rest |-> rest]
             ELSE IF StartsWith(attr, "=message=")
             THEN ReadTrapAttrs(rest, SubSeq(attr, 10, Len(attr)))
             ELSE ReadTrapAttrs(rest, error_msg)

RECURSIVE ReadResponse(_, _, _)
\* the outer loop: [st, value, exc, rest]; st = "ok" returns value, st = "exc"
\* raises exc; rest is what stays unread on the wire
ReadResponse(stream, next_control, response) ==
    IF next_control = <<>> /\ stream = <<>>
    THEN [st |-> "exc", value |-> response, exc |-> TimedOut, rest |-> <<>>]
    ELSE LET word == IF next_control # <<>> THEN next_control[1] ELSE Head(stream)
             rest == IF next_control # <<>> THEN stream ELSE Tail(stream)
         IN  IF word = ""
             THEN [st |-> "ok", value |-> response, exc |-> "", rest |-> rest]
             ELSE IF StartsWith(word, "!re")
             THEN \* r is the outcome of the inner loop, run once
                  LET After(r) ==
                          IF r.st = "exc"
                          THEN [st |-> "exc", value |-> response, exc |-> TimedOut,
                                rest |-> <<>>]
                          ELSE ReadResponse(r.rest, r.next_control,
                                            Append(response, r.data))
                  IN  CHOOSE out \in { After(r) : r \in {ReadReplyAttrs(rest, EmptyDict)} } :
                         TRUE
             ELSE IF StartsWith(word, "!done")
             THEN [st |-> "ok", value |-> response, exc |-> "", rest |-> rest]
             ELSE IF StartsWith(word, "!trap") \/ StartsWith(word, "!fatal")
             THEN LET t == ReadTrapAttrs(rest, "Unknown error")
                  IN  IF t.st = "exc"
                      THEN [st |-> "exc", value |-> response, exc |-> TimedOut,
                            rest |-> <<>>]
                      ELSE [st |-> "exc", value |-> response,
                            exc |-> "Command failed: " \o t.msg, rest |-> t.rest]
             ELSE ReadResponse(rest, <<>>, response)

----------------------------------------------------------------------------
(* The device *)

\* a sentence as the device frames it: with or without the closing empty word
Sentence(ctl, attrs) == <<ctl>> \o attrs \o (IF dev.emptyTerm THEN <<"">> ELSE <<>>)

NoAnswer == [kind |-> "", words |-> <<>>]

TrapMsg(command) == "failure at " \o command

\* what the device sends in answer to /login
LoginAnswers ==
    { [kind |-> "done",   words |-> Sentence("!done", <<>>)],
      [kind |-> "trap",   words |-> Sentence("!trap",
                                       <<"=message=invalid user name or password (6)">>)
                                    \o Sentence("!done", <<>>)],
      [kind |-> "silent", words |-> <<>>] }

\* other first words a device may answer /login with; the last is not a
\* control word of the protocol and only starts like !done
OddLoginAnswers ==
    { [kind |-> "fatal", words |-> Sentence("!fatal", <<"too many sessions">>)],
      [kind |-> "other", words |-> Sentence("!re", <<"=ret=0f3a">>)
                                   \o Sentence("!done", <<>>)],
      [kind |-> "other", words |-> Sentence("!donex", <<>>)] }

\* complete answers to a command that changes the device
ChangeAnswers(command) ==
    { [kind |-> "done",   words |-> Sentence("!done", <<>>)],
      [kind |-> "trap",   words |-> Sentence("!trap", <<"=message=" \o TrapMsg(command)>>)
                                    \o Sentence("!done", <<>>)],
      [kind |-> "fatal",  words |-> Sentence("!fatal", <<"session terminated">>)] }

\* complete answers to /system/identity/print
PrintAnswers(command) ==
    { [kind |-> "done",   words |-> Sentence("!re", <<"=name=" \o RouterName>>)
                                    \o Sentence("!done", <<>>)],
      [kind |-> "done",   words |-> Sentence("!re", <<"=identity=" \o RouterName>>)
                                    \o Sentence("!done", <<>>)],
      [kind |-> "done",   words |-> Sentence("!re", <<"=.id=*1">>)
                                    \o Sentence("!done", <<>>)],
      [kind |-> "done",   words |-> Sentence("!done", <<>>)],
      [kind |-> "trap",   words |-> Sentence("!trap", <<"=message=" \o TrapMsg(command)>>)
                                    \o Sentence("!done", <<>>)] }

\* complete answers to a print that looks one record up by name
ListAnswers(command) ==
    { [kind |-> "done",   words |-> Sentence("!re", <<"=.id=*1">>)
                                    \o Sentence("!done", <<>>)],
      [kind |-> "done",   words |-> Sentence("!done", <<>>)],
      [kind |-> "trap",   words |-> Sentence("!trap", <<"=message=" \o TrapMsg(command)>>)
                                    \o Sentence("!done", <<>>)] }

CompleteAnswers(command) ==
    IF command = "/system/identity/print" THEN PrintAnswers(command)
    ELSE IF command \in {"/user/print", "/system/scheduler/print"}
    THEN ListAnswers(command)
    ELSE ChangeAnswers(command)

\* the stream stops (the read times out) after the first n words of an answer,
\* for n up to MaxCut
CutAnswers(command) ==
    UNION { { [kind |-> IF n = 0 THEN "silent" ELSE "cut",
               words |-> SubSeq(a.words, 1, n)] :
              n \in { m \in 0..MaxCut : m < Len(a.words) } } :
            a \in CompleteAnswers(command) }

Answers(command) ==
    CompleteAnswers(command) \cup
    { c \in CutAnswers(command) :
        \A a \in CompleteAnswers(command) : c.words # a.words }

----------------------------------------------------------------------------
(* MikroTikAPI *)

NewApi(host, username, password, port, use_tls) ==
    [host |-> host, username |-> username, password |-> password, port |-> port,
     use_tls |-> use_tls, socket |-> "None", connected |-> FALSE]

NoApi == NewApi("", "", "", 0, FALSE)

\* one entry of hist
Ev(e) == [ev |-> e, words |-> <<>>, answer |-> NoAnswer, exc |-> "", value |-> <<>>]

\* a session as the operators below take and give it
Bundle(s) == [api |-> sess[s], wire |-> wire[s], transport |-> transport[s],
              hist |-> hist[s]]

\* a disconnect out of which the failure of close() propagates
Disconnect_Propagates(b, closeRaises) ==
    IF b.api.socket # "None" /\ closeRaises
    THEN [b |-> [b EXCEPT !.transport = "closed", !.wire = <<>>,
                          !.hist = Append(@, [Ev("close") EXCEPT
                                                !.exc = "close failed"])],
          raised |-> TRUE]
    ELSE IF b.api.socket # "None"
    THEN [b |-> [b EXCEPT !.api.socket = "None", !.api.connected = FALSE,
                          !.transport = "closed", !.wire = <<>>,
                          !.hist = Append(@, Ev("close"))],
          raised |-> FALSE]
    ELSE [b |-> [b EXCEPT !.api.connected = FALSE], raised |-> FALSE]

\* disconnect(): [b, raised]; closeRaises = socket.close() raises, after
\* which the transport is released all the same
DisconnectClosing(b, closeRaises) ==
    IF b.api.socket # "None"
    THEN [b |-> [b EXCEPT !.api.socket = "None", !.api.connected = FALSE,
                          !.transport = "closed", !.wire = <<>>,
                          !.hist = Append(@, [Ev("close") EXCEPT
                                                !.exc = IF closeRaises
                                                        THEN "close failed"
                                                        ELSE ""])],
          raised |-> FALSE]
    ELSE [b |-> [b EXCEPT !.api.connected = FALSE], raised |-> FALSE]

\* disconnect() where close() succeeds
Disconnect(b) == DisconnectClosing(b, FALSE).b

RECURSIVE SkipToEmpty(_)
\* _login after "!trap": read words until an empty one
SkipToEmpty(stream) ==
    IF stream = <<>> THEN [st |-> "exc", rest |-> <<>>]
    ELSE IF Head(stream) = "" THEN [st |-> "end", rest |-> Tail(stream)]
    ELSE SkipToEmpty(Tail(stream))

LoginWords(api) ==
    <<"/login", "=name=" \o api.username, "=password=" \o api.password, "">>

\* _login that takes any reply for a success
Login_AnyReply(stream) ==
    IF stream = <<>> THEN [ok |-> FALSE, rest |-> <<>>]
    ELSE [ok |-> TRUE, rest |-> Tail(stream)]

\* _login: [ok, rest]
Login(stream) ==
    IF stream = <<>> THEN [ok |-> FALSE, rest |-> <<>>]
    ELSE IF Head(stream) = "!done" THEN [ok |-> TRUE, rest |-> Tail(stream)]
    ELSE IF Head(stream) = "!trap"
    THEN [ok |-> FALSE, rest |-> SkipToEmpty(Tail(stream)).rest]
    ELSE [ok |-> FALSE, rest |-> Tail(stream)]

\* connect() that does not look at the result of _login
Connect_IgnoresLogin(b, tcpOk, answer) ==
    LET b1 == [b EXCEPT !.api.socket = "open", !.transport = "open", !.wire = <<>>,
                        !.hist = Append(@, Ev("socket"))]
    IN  IF ~tcpOk THEN [b |-> Disconnect(b1), ok |-> FALSE]
        ELSE LET l  == Login(answer.words)
                 b2 == [b1 EXCEPT !.wire = l.rest,
                                  !.hist = Append(@, [Ev("login") EXCEPT
                                                !.words = LoginWords(b.api),
                                                !.answer = answer])]
             IN  [b |-> [b2 EXCEPT !.api.connected = TRUE,
                                   !.hist = IF l.ok THEN Append(@, Ev("auth")) ELSE @],
                  ok |-> TRUE]

\* connect(): [b, ok]; tcpOk = socket.connect did not raise
Connect(b, tcpOk, answer) ==
    LET b1 == [b EXCEPT !.api.socket = "open", !.transport = "open", !.wire = <<>>,
                        !.hist = Append(@, Ev("socket"))]
    IN  IF ~tcpOk THEN [b |-> Disconnect(b1), ok |-> FALSE]
        ELSE LET l  == Login(answer.words)
                 b2 == [b1 EXCEPT !.wire = l.rest,
                                  !.hist = Append(@, [Ev("login") EXCEPT
                                                !.words = LoginWords(b.api),
                                                !.answer = answer])]
             IN  IF l.ok
                 THEN [b |-> [b2 EXCEPT !.api.connected = TRUE,
                                       !.hist = Append(@, Ev("auth"))],
                       ok |-> TRUE]
                 ELSE [b |-> Disconnect(b2), ok |-> FALSE]

\* the words of a command: the command, one word per argument, the empty word
CommandWords(command, arguments) ==
    <<command>> \o [i \in 1..Len(arguments) |->
                      "=" \o arguments[i][1] \o "=" \o arguments[i][2]] \o <<"">>

NotConnected == "Not connected to MikroTik device"

\* _send_command that reads on to the end of what the device has sent
SendCommand_DrainsWire(b, command, arguments, answer) ==
    IF ~b.api.connected
    THEN [b |-> [b EXCEPT !.hist = @ \o <<Ev("call"),
                                          [Ev("raise") EXCEPT !.exc = NotConnected]>>],
          raised |-> TRUE, exc |-> NotConnected, value |-> <<>>]
    ELSE LET r == ReadResponse(b.wire \o answer.words, <<>>, <<>>)
             e == IF r.st = "exc" THEN "Command execution failed: " \o r.exc ELSE ""
             sent == [Ev("send") EXCEPT !.words = CommandWords(command, arguments),
                                        !.answer = answer]
             back == IF r.st = "exc" THEN [Ev("raise") EXCEPT !.exc = e]
                     ELSE [Ev("ret") EXCEPT !.value = r.value]
         IN  [b |-> [b EXCEPT !.wire = <<>>, !.hist = @ \o <<Ev("call"), sent, back>>],
              raised |-> r.st = "exc", exc |-> e,
              value |-> IF r.st = "exc" THEN <<>> ELSE r.value]

\* _send_command: [b, raised, exc, value]
SendCommand(b, command, arguments, answer) ==
    IF ~b.api.connected
    THEN [b |-> [b EXCEPT !.hist = @ \o <<Ev("call"),
                                          [Ev("raise") EXCEPT !.exc = NotConnected]>>],
          raised |-> TRUE, exc |-> NotConnected, value |-> <<>>]
    ELSE LET r == ReadResponse(b.wire \o answer.words, <<>>, <<>>)
             e == IF r.st = "exc" THEN "Command execution failed: " \o r.exc ELSE ""
             sent == [Ev("send") EXCEPT !.words = CommandWords(command, arguments),
                                        !.answer = answer]
             back == IF r.st = "exc" THEN [Ev("raise") EXCEPT !.exc = e]
                     ELSE [Ev("ret") EXCEPT !.value = r.value]
         IN  [b |-> [b EXCEPT !.wire = r.rest, !.hist = @ \o <<Ev("call"), sent, back>>],
              raised |-> r.st = "exc", exc |-> e,
              value |-> IF r.st = "exc" THEN <<>> ELSE r.value]

----------------------------------------------------------------------------
(* MikroTikManager: values *)

DefaultApiPort == 8728
SslApiPort == 8729

\* the settings the manager is constructed with (from the environment)
ManagerConfigs ==
    { [service_user |-> "svc", service_pass |-> "svc-secret",
       api_port |-> DefaultApiPort, use_tls |-> FALSE],
      [service_user |-> "svc", service_pass |-> "svc-secret",
       api_port |-> SslApiPort, use_tls |-> TRUE] }

\* inputs of the calls
\* (duration_minutes, group) of the create_temporary_user calls; no group is <<>>
CreateCalls == { [duration_minutes |-> 5, group |-> <<>>],
                 [duration_minutes |-> 90, group |-> <<"write">>] }
Clock == {1700000000}
Suffixes == {"k3x9"}
Passwords == {"aB3$dE6&gH9*"}
RevokeNames == {"temp-1700000000-k3x9"}

NoResult == [pending |-> TRUE]

\* a failure record that lost its error
Fail_NoError(error) == [success |-> FALSE]

Fail(error) == [success |-> FALSE, error |-> error]

\* no settings update in progress
NoUpdate ==
    [at |-> "none",
     form |-> [service_user |-> "", service_pass |-> "", api_port |-> 0, use_tls |-> ""]]

NoFrame ==
    [identity |-> <<>>, connection_test |-> NoResult, temp_username |-> "",
     temp_password |-> "", group |-> "", e |-> "", device_identity |-> <<>>]

\* generate_temp_credentials: the clock and the random draws are inputs
GenerateUsername(prefix, ts, suffix) == prefix \o Str(ts) \o "-" \o suffix

\* the test of lines 75, 113 and 272 on a reply list
Usable(ident_resp) ==
    /\ ident_resp # <<>>
    /\ \/ Truthy(DictGet(ident_resp[1], "name"))
       \/ Truthy(DictGet(ident_resp[1], "identity"))

\* lines 78-79 and 274-275; None when the list is empty
IdentityOf(ident_resp) ==
    IF ident_resp # <<>>
    THEN OrElse(DictGet(ident_resp[1], "name"), DictGet(ident_resp[1], "identity"))
    ELSE <<>>

IdentityCommand == "/system/identity/print"
ProplistName == << <<".proplist", "name">> >>

SchedulerName(username) == "cleanup-" \o username

IntervalStr(duration_minutes) ==
    Fmt02d(duration_minutes \div 60) \o ":" \o Fmt02d(duration_minutes % 60) \o ":00"

CleanupScript(username, scheduler_name) ==
    ":log info \"Cleaning up temporary user: " \o username \o "\"; "
    \o "/user remove [find name=\"" \o username \o "\"]; "
    \o ":log info \"Temporary user " \o username \o " removed\"; "
    \o "/system scheduler remove [find name=\"" \o scheduler_name \o "\"]; "
    \o ":log info \"Cleanup scheduler " \o scheduler_name \o " removed\""

ExpiryComment(duration_minutes) ==
    "Temporary user - expires in " \o Str(duration_minutes) \o " minutes"

UserAddArgs(username, password, group, duration_minutes) ==
    << <<"name", username>>, <<"password", password>>, <<"group", group>>,
       <<"comment", ExpiryComment(duration_minutes)>> >>

SchedulerAddArgs(username, duration_minutes) ==
    << <<"name", SchedulerName(username)>>,
       <<"interval", IntervalStr(duration_minutes)>>,
       <<"on-event", CleanupScript(username, SchedulerName(username))>>,
       <<"comment", "Auto cleanup for " \o username>> >>

----------------------------------------------------------------------------
(* State updates shared by the steps *)

SetSession(s, b) ==
    /\ sess' = [sess EXCEPT ![s] = b.api]
    /\ wire' = [wire EXCEPT ![s] = b.wire]
    /\ transport' = [transport EXCEPT ![s] = b.transport]
    /\ hist' = [hist EXCEPT ![s] = b.hist]

\* the operation returns rec to its caller
Return(rec) ==
    /\ pc' = "done"
    /\ result' = rec

\* test_connection returns rec: to the caller of the manager, or into
\* create_temporary_user / revoke_temporary_user (lines 208 and 298)
TcReturnTo(rec) ==
    /\ frame' = [frame EXCEPT !.connection_test = rec]
    /\ IF top = "test_connection"
       THEN Return(rec)
       ELSE /\ pc' = IF top = "create_temporary_user" THEN "cr_prepare" ELSE "rv_prepare"
            /\ result' = result

----------------------------------------------------------------------------
(* Initial states *)

Init ==
    /\ mgr \in ManagerConfigs
    /\ dev \in [emptyTerm : BOOLEAN]
    /\ sess = [s \in Sessions |-> NoApi]
    /\ wire = [s \in Sessions |-> <<>>]
    /\ transport = [s \in Sessions |-> "none"]
    /\ hist = [s \in Sessions |-> <<>>]
    /\ pc = "idle"
    /\ top = "none"
    /\ args = [ip |-> Host, duration_minutes |-> 0, username_prefix |-> "",
               group |-> <<>>, username |-> ""]
    /\ frame = NoFrame
    /\ result = NoResult
    /\ ncalls = 0
    /\ upd = NoUpdate

----------------------------------------------------------------------------
(* The caller of the manager *)

CallTestConnection ==
    /\ pc = "idle"
    /\ top' = "test_connection"
    /\ pc' = "tc_probe"
    /\ UNCHANGED <<mgr, dev, sess, wire, transport, hist, args, frame, result, ncalls,
                 upd>>

CallCreateTemporaryUser ==
    /\ pc = "idle"
    /\ \E c \in CreateCalls :
          args' = [args EXCEPT !.duration_minutes = c.duration_minutes,
                               !.username_prefix = "temp-", !.group = c.group]
    /\ top' = "create_temporary_user"
    /\ pc' = "tc_probe"
    /\ UNCHANGED <<mgr, dev, sess, wire, transport, hist, frame, result, ncalls, upd>>

CallRevokeTemporaryUser ==
    /\ pc = "idle"
    /\ \E u \in RevokeNames : args' = [args EXCEPT !.username = u]
    /\ top' = "revoke_temporary_user"
    /\ pc' = "tc_probe"
    /\ UNCHANGED <<mgr, dev, sess, wire, transport, hist, frame, result, ncalls, upd>>

----------------------------------------------------------------------------
(* MikroTikManager.test_connection *)

\* lines 63-71: the TCP probe of connect_to_device, then the session object
TcConnectToDevice ==
    /\ pc = "tc_probe"
    /\ \E reachable \in BOOLEAN :
          IF ~reachable
          THEN /\ TcReturnTo(Fail("Cannot reach port " \o Str(mgr.api_port)))
               /\ UNCHANGED sess
          ELSE /\ sess' = [sess EXCEPT !["probe"] =
                              NewApi(args.ip, mgr.service_user, mgr.service_pass,
                                     mgr.api_port, mgr.use_tls)]
               /\ pc' = "tc_connect"
               /\ UNCHANGED <<frame, result>>
    /\ UNCHANGED <<mgr, dev, wire, transport, hist, top, args, ncalls, upd>>

\* line 72
TcApiConnect ==
    /\ pc = "tc_connect"
    /\ \E tcpOk \in BOOLEAN, a \in LoginAnswers :
          LET c == Connect(Bundle("probe"), tcpOk, a)
          IN  /\ SetSession("probe", c.b)
              /\ pc' = IF c.ok THEN "tc_ident1" ELSE "tc_disc"
    /\ UNCHANGED <<mgr, dev, top, args, frame, result, ncalls, upd>>

\* the restricted query followed by the unrestricted one whatever it returned
TcIdentity1_AlwaysFallsBack ==
    /\ pc = "tc_ident1"
    /\ \E a \in Answers(IdentityCommand) :
          LET r == SendCommand(Bundle("probe"), IdentityCommand, ProplistName, a)
          IN  /\ SetSession("probe", r.b)
              /\ IF r.raised
                 THEN pc' = "tc_result" /\ UNCHANGED frame
                 ELSE pc' = "tc_ident2" /\ UNCHANGED frame
    /\ UNCHANGED <<mgr, dev, top, args, result, ncalls, upd>>

\* lines 74-79 with the restricted query; an exception goes to line 81
TcIdentity1 ==
    /\ pc = "tc_ident1"
    /\ \E a \in Answers(IdentityCommand) :
          LET r == SendCommand(Bundle("probe"), IdentityCommand, ProplistName, a)
          IN  /\ SetSession("probe", r.b)
              /\ IF r.raised
                 THEN pc' = "tc_result" /\ UNCHANGED frame
                 ELSE IF Usable(r.value)
                 THEN /\ pc' = "tc_disc"
                      /\ frame' = [frame EXCEPT !.identity = IdentityOf(r.value)]
                 ELSE pc' = "tc_ident2" /\ UNCHANGED frame
    /\ UNCHANGED <<mgr, dev, top, args, result, ncalls, upd>>

\* lines 77-79: the unrestricted query
TcIdentity2 ==
    /\ pc = "tc_ident2"
    /\ \E a \in Answers(IdentityCommand) :
          LET r == SendCommand(Bundle("probe"), IdentityCommand, <<>>, a)
          IN  /\ SetSession("probe", r.b)
              /\ IF r.raised
                 THEN pc' = "tc_result" /\ UNCHANGED frame
                 ELSE /\ pc' = "tc_disc"
                      /\ frame' = [frame EXCEPT !.identity = IdentityOf(r.value)]
    /\ UNCHANGED <<mgr, dev, top, args, result, ncalls, upd>>

\* line 80
TcDisconnect ==
    /\ pc = "tc_disc"
    /\ SetSession("probe", Disconnect(Bundle("probe")))
    /\ pc' = "tc_result"
    /\ UNCHANGED <<mgr, dev, top, args, frame, result, ncalls, upd>>

\* lines 85-88.  The session object is dropped on return; a socket it still
\* holds is closed by its finalizer or stays open, as the runtime decides.
TcResult ==
    /\ pc = "tc_result"
    /\ \E finalized \in IF sess["probe"].socket = "open" THEN BOOLEAN ELSE {FALSE} :
          transport' = [transport EXCEPT !["probe"] = IF finalized THEN "closed" ELSE @]
    /\ sess' = [sess EXCEPT !["probe"] = NoApi]
    /\ wire' = [wire EXCEPT !["probe"] = <<>>]
    /\ hist' = [hist EXCEPT !["probe"] = <<>>]
    /\ IF ~Truthy(frame.identity)
       THEN TcReturnTo([success |-> TRUE, device_name |-> <<>>, identity |-> <<>>,
                        message |-> "Connected, identity not readable"])
       ELSE TcReturnTo([success |-> TRUE, device_name |-> frame.identity,
                        identity |-> frame.identity,
                        message |-> "Connection successful"])
    /\ UNCHANGED <<mgr, dev, top, args, ncalls, upd>>

----------------------------------------------------------------------------
(* MikroTikManager.create_temporary_user *)

\* create_temporary_user that goes on after a failed probe
CrPrepare_IgnoresProbe ==
    /\ pc = "cr_prepare"
    /\ \E ts \in Clock, sfx \in Suffixes, pw \in Passwords :
          frame' = [frame EXCEPT
             !.temp_username = GenerateUsername(args.username_prefix, ts, sfx),
             !.temp_password = pw,
             !.group = IF Truthy(args.group) THEN args.group[1] ELSE "read"]
    /\ sess' = [sess EXCEPT !["svc"] =
                   NewApi(args.ip, mgr.service_user, mgr.service_pass,
                          mgr.api_port, mgr.use_tls)]
    /\ pc' = "cr_connect"
    /\ UNCHANGED <<mgr, dev, wire, transport, hist, top, args, result, ncalls, upd>>

\* lines 209-217
CrPrepare ==
    /\ pc = "cr_prepare"
    /\ IF ~frame.connection_test.success
       THEN /\ Return(Fail("Cannot connect to device: " \o
                            (IF "error" \in DOMAIN frame.connection_test
                             THEN frame.connection_test.error ELSE "unreachable")))
            /\ UNCHANGED <<sess, frame>>
       ELSE /\ \E ts \in Clock, sfx \in Suffixes, pw \in Passwords :
                  frame' = [frame EXCEPT
                     !.temp_username = GenerateUsername(args.username_prefix, ts, sfx),
                     !.temp_password = pw,
                     !.group = IF Truthy(args.group) THEN args.group[1] ELSE "read"]
            /\ sess' = [sess EXCEPT !["svc"] =
                           NewApi(args.ip, mgr.service_user, mgr.service_pass,
                                  mgr.api_port, mgr.use_tls)]
            /\ pc' = "cr_connect"
            /\ UNCHANGED result
    /\ UNCHANGED <<mgr, dev, wire, transport, hist, top, args, ncalls, upd>>

\* lines 218-219
CrApiConnect ==
    /\ pc = "cr_connect"
    /\ \E tcpOk \in BOOLEAN, a \in LoginAnswers :
          LET c == Connect(Bundle("svc"), tcpOk, a)
          IN  /\ SetSession("svc", c.b)
              /\ IF c.ok
                 THEN pc' = "cr_useradd" /\ UNCHANGED result
                 ELSE Return(Fail("API login failed"))
    /\ UNCHANGED <<mgr, dev, top, args, frame, ncalls, upd>>

\* lines 222-232
CrUserAdd ==
    /\ pc = "cr_useradd"
    /\ \E a \in Answers("/user/add") :
          LET r == SendCommand(Bundle("svc"), "/user/add",
                               UserAddArgs(frame.temp_username, frame.temp_password,
                                           frame.group, args.duration_minutes), a)
          IN  IF r.raised
              THEN /\ SetSession("svc", Disconnect(r.b))
                   /\ Return(Fail("Failed to create user: " \o r.exc))
              ELSE /\ SetSession("svc", r.b)
                   /\ pc' = "cr_sched"
                   /\ UNCHANGED result
    /\ UNCHANGED <<mgr, dev, top, args, frame, ncalls, upd>>

\* a create that goes on after /user/add without installing the scheduler
CrSchedulerAdd_NotWritten ==
    /\ pc = "cr_sched"
    /\ LET known == DictGet(frame.connection_test, "identity")
       IN  IF known # <<>> /\ Truthy(known[1])
           THEN /\ frame' = [frame EXCEPT !.device_identity = known[1]]
                /\ pc' = "cr_finish"
                /\ UNCHANGED sess
           ELSE /\ sess' = [sess EXCEPT !["temp"] =
                               NewApi(args.ip, frame.temp_username,
                                      frame.temp_password, mgr.api_port,
                                      mgr.use_tls)]
                /\ pc' = "cr_temp_connect"
                /\ UNCHANGED frame
    /\ UNCHANGED <<mgr, dev, wire, transport, hist, top, args, result, ncalls, upd>>

\* lines 235-256, and lines 266-269 and 277-278 when the scheduler was added
CrSchedulerAdd ==
    /\ pc = "cr_sched"
    /\ \E a \in Answers("/system/scheduler/add") :
          LET r == SendCommand(Bundle("svc"), "/system/scheduler/add",
                               SchedulerAddArgs(frame.temp_username,
                                                args.duration_minutes), a)
              known == DictGet(frame.connection_test, "identity")
          IN  /\ wire' = [wire EXCEPT !["svc"] = r.b.wire]
              /\ hist' = [hist EXCEPT !["svc"] = r.b.hist]
              /\ IF r.raised
                 THEN /\ frame' = [frame EXCEPT !.e = r.exc]
                      /\ pc' = "cr_rollback"
                      /\ UNCHANGED sess
                 ELSE IF known # <<>> /\ Truthy(known[1])
                 THEN /\ frame' = [frame EXCEPT !.device_identity = known[1]]
                      /\ pc' = "cr_finish"
                      /\ UNCHANGED sess
                 ELSE /\ sess' = [sess EXCEPT !["temp"] =
                                     NewApi(args.ip, frame.temp_username,
                                            frame.temp_password, mgr.api_port,
                                            mgr.use_tls)]
                      /\ pc' = "cr_temp_connect"
                      /\ UNCHANGED frame
    /\ UNCHANGED <<mgr, dev, transport, top, args, result, ncalls, upd>>

\* the scheduler failure returned without the rollback
CrRollback_NoRemove ==
    /\ pc = "cr_rollback"
    /\ SetSession("svc", Disconnect(Bundle("svc")))
    /\ Return(Fail("Failed to create cleanup scheduler: " \o frame.e))
    /\ UNCHANGED <<mgr, dev, top, args, frame, ncalls, upd>>

\* a failed rollback reported in place of the scheduler failure
CrRollback_ReportsRollback ==
    /\ pc = "cr_rollback"
    /\ \E a \in Answers("/user/remove") :
          LET r == SendCommand(Bundle("svc"), "/user/remove",
                               << <<"numbers", frame.temp_username>> >>, a)
          IN  /\ SetSession("svc", Disconnect(r.b))
              /\ Return(Fail("Failed to create cleanup scheduler: " \o
                             (IF r.raised THEN r.exc ELSE frame.e)))
    /\ UNCHANGED <<mgr, dev, top, args, frame, ncalls, upd>>

\* lines 257-263: the rollback, then the failure of the scheduler step
CrRollback ==
    /\ pc = "cr_rollback"
    /\ \E a \in Answers("/user/remove") :
          LET r == SendCommand(Bundle("svc"), "/user/remove",
                               << <<"numbers", frame.temp_username>> >>, a)
          IN  SetSession("svc", Disconnect(r.b))
    /\ Return(Fail("Failed to create cleanup scheduler: " \o frame.e))
    /\ UNCHANGED <<mgr, dev, top, args, frame, ncalls, upd>>

\* line 270
CrTempConnect ==
    /\ pc = "cr_temp_connect"
    /\ \E tcpOk \in BOOLEAN, a \in LoginAnswers :
          LET c == Connect(Bundle("temp"), tcpOk, a)
          IN  /\ SetSession("temp", c.b)
              /\ pc' = IF c.ok THEN "cr_temp_ident1" ELSE "cr_temp_disc"
    /\ UNCHANGED <<mgr, dev, top, args, frame, result, ncalls, upd>>

\* the restricted query on the temporary session with its exception passed on
\* to the handler of line 291
CrTempIdentity1_FailsOnError ==
    /\ pc = "cr_temp_ident1"
    /\ \E a \in Answers(IdentityCommand) :
          LET r == SendCommand(Bundle("temp"), IdentityCommand, ProplistName, a)
          IN  /\ SetSession("temp", r.b)
              /\ IF r.raised
                 THEN Return(Fail(r.exc)) /\ UNCHANGED frame
                 ELSE IF Usable(r.value)
                 THEN /\ pc' = "cr_temp_disc"
                      /\ frame' = [frame EXCEPT !.device_identity = IdentityOf(r.value)]
                      /\ UNCHANGED result
                 ELSE pc' = "cr_temp_ident2" /\ UNCHANGED <<frame, result>>
    /\ UNCHANGED <<mgr, dev, top, args, ncalls, upd>>

\* lines 271-275 with the restricted query; an exception goes to line 279
CrTempIdentity1 ==
    /\ pc = "cr_temp_ident1"
    /\ \E a \in Answers(IdentityCommand) :
          LET r == SendCommand(Bundle("temp"), IdentityCommand, ProplistName, a)
          IN  /\ SetSession("temp", r.b)
              /\ IF r.raised
                 THEN pc' = "cr_finish" /\ UNCHANGED frame
                 ELSE IF Usable(r.value)
                 THEN /\ pc' = "cr_temp_disc"
                      /\ frame' = [frame EXCEPT !.device_identity = IdentityOf(r.value)]
                 ELSE pc' = "cr_temp_ident2" /\ UNCHANGED frame
    /\ UNCHANGED <<mgr, dev, top, args, result, ncalls, upd>>

\* lines 273-275: the unrestricted query
CrTempIdentity2 ==
    /\ pc = "cr_temp_ident2"
    /\ \E a \in Answers(IdentityCommand) :
          LET r == SendCommand(Bundle("temp"), IdentityCommand, <<>>, a)
          IN  /\ SetSession("temp", r.b)
              /\ IF r.raised
                 THEN pc' = "cr_finish" /\ UNCHANGED frame
                 ELSE /\ pc' = "cr_temp_disc"
                      /\ frame' = [frame EXCEPT !.device_identity = IdentityOf(r.value)]
    /\ UNCHANGED <<mgr, dev, top, args, result, ncalls, upd>>

\* line 276
CrTempDisconnect ==
    /\ pc = "cr_temp_disc"
    /\ SetSession("temp", Disconnect(Bundle("temp")))
    /\ pc' = "cr_finish"
    /\ UNCHANGED <<mgr, dev, top, args, frame, result, ncalls, upd>>

\* lines 282-290; the temporary-credential session object is dropped on return
CrFinish ==
    /\ pc = "cr_finish"
    /\ \E finalized \in IF sess["temp"].socket = "open" THEN BOOLEAN ELSE {FALSE} :
          LET b == Disconnect(Bundle("svc"))
          IN  /\ sess' = [sess EXCEPT !["svc"] = b.api]
              /\ wire' = [wire EXCEPT !["svc"] = b.wire]
              /\ hist' = [hist EXCEPT !["svc"] = b.hist]
              /\ transport' = [transport EXCEPT !["svc"] = b.transport,
                                                !["temp"] = IF finalized THEN "closed"
                                                            ELSE @]
    /\ Return([success |-> TRUE, username |-> frame.temp_username,
               password |-> frame.temp_password,
               duration_minutes |-> args.duration_minutes,
               message |-> "Temporary user created successfully",
               device_identity |-> frame.device_identity])
    /\ UNCHANGED <<mgr, dev, top, args, frame, ncalls, upd>>

----------------------------------------------------------------------------
(* MikroTikManager.revoke_temporary_user *)

\* lines 299-302: the session is built without the manager's TLS flag; a
\* missing "error" key is a KeyError, which line 322 turns into a failure
RvPrepare ==
    /\ pc = "rv_prepare"
    /\ IF ~frame.connection_test.success
       THEN /\ Return(IF "error" \in DOMAIN frame.connection_test
                      THEN Fail("Cannot connect to device: " \o
                                frame.connection_test.error)
                      ELSE Fail("'error'"))
            /\ UNCHANGED sess
       ELSE /\ sess' = [sess EXCEPT !["svc"] =
                           NewApi(args.ip, mgr.service_user, mgr.service_pass,
                                  mgr.api_port, FALSE)]
            /\ pc' = "rv_connect"
            /\ UNCHANGED result
    /\ UNCHANGED <<mgr, dev, wire, transport, hist, top, args, frame, ncalls, upd>>

\* lines 303-304
RvApiConnect ==
    /\ pc = "rv_connect"
    /\ \E tcpOk \in BOOLEAN, a \in LoginAnswers :
          LET c == Connect(Bundle("svc"), tcpOk, a)
          IN  /\ SetSession("svc", c.b)
              /\ IF c.ok
                 THEN pc' = "rv_userremove" /\ UNCHANGED result
                 ELSE Return(Fail("API login failed"))
    /\ UNCHANGED <<mgr, dev, top, args, frame, ncalls, upd>>

\* a revoke that gives up when the user cannot be removed
RvUserRemove_StopsOnFailure ==
    /\ pc = "rv_userremove"
    /\ \E a \in Answers("/user/remove") :
          LET r == SendCommand(Bundle("svc"), "/user/remove",
                               << <<"numbers", args.username>> >>, a)
          IN  IF r.raised
              THEN /\ SetSession("svc", Disconnect(r.b))
                   /\ Return(Fail("Failed to remove user: " \o r.exc))
              ELSE /\ SetSession("svc", r.b)
                   /\ pc' = "rv_sched"
                   /\ UNCHANGED result
    /\ UNCHANGED <<mgr, dev, top, args, frame, ncalls, upd>>

\* lines 306-311: a failure is logged and the operation goes on
RvUserRemove ==
    /\ pc = "rv_userremove"
    /\ \E a \in Answers("/user/remove") :
          LET r == SendCommand(Bundle("svc"), "/user/remove",
                               << <<"numbers", args.username>> >>, a)
          IN  SetSession("svc", r.b)
    /\ pc' = "rv_sched"
    /\ UNCHANGED <<mgr, dev, top, args, frame, result, ncalls, upd>>

\* a revoke that fails when the scheduler cannot be removed
RvSchedulerRemove_FailsOnError ==
    /\ pc = "rv_sched"
    /\ \E a \in Answers("/system/scheduler/remove") :
          LET r == SendCommand(Bundle("svc"), "/system/scheduler/remove",
                               << <<"numbers", SchedulerName(args.username)>> >>, a)
          IN  /\ SetSession("svc", Disconnect(r.b))
              /\ Return(IF r.raised
                        THEN Fail("Failed to remove scheduler: " \o r.exc)
                        ELSE [success |-> TRUE,
                              message |-> "User " \o args.username
                                          \o " revoked successfully"])
    /\ UNCHANGED <<mgr, dev, top, args, frame, ncalls, upd>>

\* lines 313-321
RvSchedulerRemove ==
    /\ pc = "rv_sched"
    /\ \E a \in Answers("/system/scheduler/remove") :
          LET r == SendCommand(Bundle("svc"), "/system/scheduler/remove",
                               << <<"numbers", SchedulerName(args.username)>> >>, a)
          IN  SetSession("svc", Disconnect(r.b))
    /\ Return([success |-> TRUE,
               message |-> "User " \o args.username \o " revoked successfully"])
    /\ UNCHANGED <<mgr, dev, top, args, frame, ncalls, upd>>

----------------------------------------------------------------------------
(* The manager serving one call *)

Next ==
    \/ CallTestConnection
    \/ CallCreateTemporaryUser
    \/ CallRevokeTemporaryUser
    \/ TcConnectToDevice
    \/ TcApiConnect
    \/ TcIdentity1
    \/ TcIdentity2
    \/ TcDisconnect
    \/ TcResult
    \/ CrPrepare
    \/ CrApiConnect
    \/ CrUserAdd
    \/ CrSchedulerAdd
    \/ CrRollback
    \/ CrTempConnect
    \/ CrTempIdentity1
    \/ CrTempIdentity2
    \/ CrTempDisconnect
    \/ CrFinish
    \/ RvPrepare
    \/ RvApiConnect
    \/ RvUserRemove
    \/ RvSchedulerRemove

Spec == Init /\ [][Next]_vars

----------------------------------------------------------------------------
(* The manager serving one call while the settings handler of main.py
   (update_settings, lines 1096-1119) assigns the fields of the same
   MikroTikManager object one after the other *)

\* the form an administrator posts: service_user, service_pass, api_port and
\* use_tls ("on", "off" or "auto")
SettingsForms ==
    { [service_user |-> "ops", service_pass |-> "ops-secret",
       api_port |-> SslApiPort, use_tls |-> "auto"] }

\* a manager on the default port and a device that sends no empty words
InitSettings ==
    /\ Init
    /\ mgr.api_port = DefaultApiPort
    /\ ~dev.emptyTerm

\* the request arrives with its form
CallUpdateSettings ==
    /\ upd.at = "none"
    /\ \E f \in SettingsForms : upd' = [at |-> "service_user", form |-> f]
    /\ UNCHANGED <<mgr, dev, sess, wire, transport, hist, pc, top, args, frame,
                   result, ncalls>>

\* line 1107
UsServiceUser ==
    /\ upd.at = "service_user"
    /\ mgr' = [mgr EXCEPT !.service_user = upd.form.service_user]
    /\ upd' = [upd EXCEPT !.at = "service_pass"]
    /\ UNCHANGED <<dev, sess, wire, transport, hist, pc, top, args, frame, result,
                   ncalls>>

\* line 1108
UsServicePass ==
    /\ upd.at = "service_pass"
    /\ mgr' = [mgr EXCEPT !.service_pass = upd.form.service_pass]
    /\ upd' = [upd EXCEPT !.at = "api_port"]
    /\ UNCHANGED <<dev, sess, wire, transport, hist, pc, top, args, frame, result,
                   ncalls>>

\* lines 1109-1112: int() of the integer the form carries does not raise
UsApiPort ==
    /\ upd.at = "api_port"
    /\ mgr' = [mgr EXCEPT !.api_port = upd.form.api_port]
    /\ upd' = [upd EXCEPT !.at = "use_tls"]
    /\ UNCHANGED <<dev, sess, wire, transport, hist, pc, top, args, frame, result,
                   ncalls>>

\* lines 1115-1119
UsUseTls ==
    /\ upd.at = "use_tls"
    /\ mgr' = [mgr EXCEPT !.use_tls =
                  IF upd.form.use_tls \in {"on", "off"}
                  THEN upd.form.use_tls = "on"
                  ELSE mgr.api_port = SslApiPort]
    /\ upd' = [upd EXCEPT !.at = "done"]
    /\ UNCHANGED <<dev, sess, wire, transport, hist, pc, top, args, frame, result,
                   ncalls>>

NextSettings ==
    \/ Next
    \/ CallUpdateSettings
    \/ UsServiceUser
    \/ UsServicePass
    \/ UsApiPort
    \/ UsUseTls

SpecSettings == InitSettings /\ [][NextSettings]_vars

----------------------------------------------------------------------------
(* One MikroTikAPI object used directly: its client calls connect(),       *)
(* disconnect() and _send_command() in any order, MaxCalls times.          *)

InitApi ==
    /\ mgr \in ManagerConfigs
    /\ dev \in [emptyTerm : BOOLEAN]
    /\ sess = [s \in Sessions |->
                 IF s = "svc"
                 THEN NewApi(Host, mgr.service_user, mgr.service_pass, mgr.api_port,
                             mgr.use_tls)
                 ELSE NoApi]
    /\ wire = [s \in Sessions |-> <<>>]
    /\ transport = [s \in Sessions |-> "none"]
    /\ hist = [s \in Sessions |-> <<>>]
    /\ pc = "api"
    /\ top = "api"
    /\ args = [ip |-> Host, duration_minutes |-> 0, username_prefix |-> "",
               group |-> <<>>, username |-> ""]
    /\ frame = NoFrame
    /\ result = NoResult
    /\ ncalls = 0
    /\ upd = NoUpdate

ApiCallConnect ==
    /\ pc = "api"
    /\ ncalls < MaxCalls
    /\ \E tcpOk \in BOOLEAN, a \in LoginAnswers \cup OddLoginAnswers :
          LET c == Connect(Bundle("svc"), tcpOk, a)
          IN  /\ SetSession("svc", c.b)
              /\ result' = [call |-> "connect", ok |-> c.ok]
    /\ ncalls' = ncalls + 1
    /\ UNCHANGED <<mgr, dev, pc, top, args, frame, upd>>

ApiCallDisconnect ==
    /\ pc = "api"
    /\ ncalls < MaxCalls
    /\ \E closeRaises \in BOOLEAN :
          LET d == DisconnectClosing(Bundle("svc"), closeRaises)
          IN  /\ SetSession("svc", d.b)
              /\ result' = [call |-> "disconnect", raised |-> d.raised]
    /\ ncalls' = ncalls + 1
    /\ UNCHANGED <<mgr, dev, pc, top, args, frame, upd>>

ApiCallSendCommand ==
    /\ pc = "api"
    /\ ncalls < MaxCalls
    /\ \E a \in Answers(IdentityCommand) :
          LET r == SendCommand(Bundle("svc"), IdentityCommand, <<>>, a)
          IN  /\ SetSession("svc", r.b)
              /\ result' = [call |-> "_send_command", raised |-> r.raised,
                            exc |-> r.exc, value |-> r.value]
    /\ ncalls' = ncalls + 1
    /\ UNCHANGED <<mgr, dev, pc, top, args, frame, upd>>

NextApi ==
    \/ ApiCallConnect
    \/ ApiCallDisconnect
    \/ ApiCallSendCommand

SpecApi == InitApi /\ [][NextApi]_vars

----------------------------------------------------------------------------
(* MikroTikAPI.create_temporary_user and MikroTikAPI.revoke_temporary_user,
   the operations of the protocol client itself (mikrotik_api.py lines
   252-349), called on a session built by create_temp_user_on_device /
   revoke_temp_user_on_device (lines 402-413) *)

\* durations a caller passes, in minutes
ApiDurations == {0, 5, 60, 90}

\* line 274 and line 332
ApiSchedulerName(username) == "cleanup_" \o username

\* line 275
ApiCleanupTime(duration_minutes) == "00:00:" \o Fmt02d(duration_minutes)

\* line 281
ApiCleanupScript(username) ==
    "/user/remove [find name=\"" \o username
    \o "\"] ; /system/scheduler/remove [find name=\""
    \o ApiSchedulerName(username) \o "\"]"

\* lines 259-264
ApiUserAddArgs(username, password, duration_minutes) ==
    << <<"name", username>>, <<"password", password>>, <<"group", "read">>,
       <<"comment", "Temporary user - expires in " \o Str(duration_minutes)
                    \o " minutes">> >>

\* lines 277-283
ApiSchedulerAddArgs(username, duration_minutes) ==
    << <<"name", ApiSchedulerName(username)>>, <<"start-time", "startup">>,
       <<"interval", ApiCleanupTime(duration_minutes)>>,
       <<"on-event", ApiCleanupScript(username)>>,
       <<"comment", "Auto-cleanup for temporary user " \o username>> >>

InitOps ==
    /\ mgr \in ManagerConfigs
    /\ dev \in [emptyTerm : BOOLEAN]
    /\ sess = [s \in Sessions |->
                 IF s = "svc"
                 THEN NewApi(Host, mgr.service_user, mgr.service_pass,
                             DefaultApiPort, FALSE)
                 ELSE NoApi]
    /\ wire = [s \in Sessions |-> <<>>]
    /\ transport = [s \in Sessions |-> "none"]
    /\ hist = [s \in Sessions |-> <<>>]
    /\ \/ /\ top = "api_create_temporary_user"
          /\ pc = "ac_connect"
          /\ args \in [ip : {Host}, username : RevokeNames, password : Passwords,
                       duration_minutes : ApiDurations]
       \/ /\ top = "api_revoke_temporary_user"
          /\ pc = "ar_connect"
          /\ args \in [ip : {Host}, username : RevokeNames, password : {""},
                       duration_minutes : {0}]
    /\ frame = NoFrame
    /\ result = NoResult
    /\ ncalls = 0
    /\ upd = NoUpdate

\* lines 255-256
AcConnect ==
    /\ pc = "ac_connect"
    /\ \E tcpOk \in BOOLEAN, a \in LoginAnswers :
          LET c == Connect(Bundle("svc"), tcpOk, a)
          IN  /\ SetSession("svc", c.b)
              /\ IF c.ok
                 THEN pc' = "ac_useradd" /\ result' = result
                 ELSE Return(Fail("Connection failed"))
    /\ UNCHANGED <<mgr, dev, top, args, frame, ncalls, upd>>

\* lines 266-271
AcUserAdd ==
    /\ pc = "ac_useradd"
    /\ \E a \in Answers("/user/add") :
          LET r == SendCommand(Bundle("svc"), "/user/add",
                               ApiUserAddArgs(args.username, args.password,
                                              args.duration_minutes), a)
          IN  IF r.raised
              THEN /\ SetSession("svc", Disconnect(r.b))
                   /\ Return(Fail("Failed to create user: " \o r.exc))
              ELSE /\ SetSession("svc", r.b)
                   /\ pc' = "ac_scheduler"
                   /\ result' = result
    /\ UNCHANGED <<mgr, dev, top, args, frame, ncalls, upd>>

\* lines 273-288 and 297-305
AcSchedulerAdd ==
    /\ pc = "ac_scheduler"
    /\ \E a \in Answers("/system/scheduler/add") :
          LET r == SendCommand(Bundle("svc"), "/system/scheduler/add",
                               ApiSchedulerAddArgs(args.username,
                                                   args.duration_minutes), a)
          IN  IF r.raised
              THEN /\ SetSession("svc", r.b)
                   /\ pc' = "ac_rollback"
                   /\ result' = result
                   /\ frame' = [frame EXCEPT !.e = r.exc]
              ELSE /\ SetSession("svc", Disconnect(r.b))
                   /\ Return([success |-> TRUE, username |-> args.username,
                              password |-> args.password,
                              duration_minutes |-> args.duration_minutes,
                              scheduler_name |-> ApiSchedulerName(args.username)])
                   /\ frame' = frame
    /\ UNCHANGED <<mgr, dev, top, args, ncalls, upd>>

\* lines 289-295
AcRollback ==
    /\ pc = "ac_rollback"
    /\ \E a \in Answers("/user/remove") :
          LET r == SendCommand(Bundle("svc"), "/user/remove",
                               << <<"numbers", args.username>> >>, a)
          IN  SetSession("svc", Disconnect(r.b))
    /\ Return(Fail("Failed to create cleanup scheduler: " \o frame.e))
    /\ UNCHANGED <<mgr, dev, top, args, frame, ncalls, upd>>

\* lines 315-316
ArConnect ==
    /\ pc = "ar_connect"
    /\ \E tcpOk \in BOOLEAN, a \in LoginAnswers :
          LET c == Connect(Bundle("svc"), tcpOk, a)
          IN  /\ SetSession("svc", c.b)
              /\ IF c.ok
                 THEN pc' = "ar_userprint" /\ result' = result
                 ELSE Return(Fail("Connection failed"))
    /\ UNCHANGED <<mgr, dev, top, args, frame, ncalls, upd>>

\* lines 319-323 and 327-329
ArUserPrint ==
    /\ pc = "ar_userprint"
    /\ \E a \in Answers("/user/print") :
          LET r == SendCommand(Bundle("svc"), "/user/print",
                               << <<"name", args.username>> >>, a)
          IN  IF r.raised
              THEN /\ SetSession("svc", Disconnect(r.b))
                   /\ Return(Fail("Failed to remove user: " \o r.exc))
              ELSE IF r.value = <<>>
              THEN /\ SetSession("svc", Disconnect(r.b))
                   /\ Return(Fail("User not found"))
              ELSE /\ SetSession("svc", r.b)
                   /\ pc' = "ar_userremove"
                   /\ result' = result
    /\ UNCHANGED <<mgr, dev, top, args, frame, ncalls, upd>>

\* lines 325-329
ArUserRemove ==
    /\ pc = "ar_userremove"
    /\ \E a \in Answers("/user/remove") :
          LET r == SendCommand(Bundle("svc"), "/user/remove",
                               << <<"numbers", args.username>> >>, a)
          IN  IF r.raised
              THEN /\ SetSession("svc", Disconnect(r.b))
                   /\ Return(Fail("Failed to remove user: " \o r.exc))
              ELSE /\ SetSession("svc", r.b)
                   /\ pc' = "ar_schedprint"
                   /\ result' = result
    /\ UNCHANGED <<mgr, dev, top, args, frame, ncalls, upd>>

\* lines 331-344 when the scheduler is not found or the print fails
ArSchedulerPrint ==
    /\ pc = "ar_schedprint"
    /\ \E a \in Answers("/system/scheduler/print") :
          LET r == SendCommand(Bundle("svc"), "/system/scheduler/print",
                               << <<"name", ApiSchedulerName(args.username)>> >>, a)
          IN  IF ~r.raised /\ r.value # <<>>
              THEN /\ SetSession("svc", r.b)
                   /\ pc' = "ar_schedremove"
                   /\ result' = result
              ELSE /\ SetSession("svc", Disconnect(r.b))
                   /\ Return([success |-> TRUE,
                              message |-> "User " \o args.username
                                          \o " revoked successfully"])
    /\ UNCHANGED <<mgr, dev, top, args, frame, ncalls, upd>>

\* lines 335-344
ArSchedulerRemove ==
    /\ pc = "ar_schedremove"
    /\ \E a \in Answers("/system/scheduler/remove") :
          LET r == SendCommand(Bundle("svc"), "/system/scheduler/remove",
                               << <<"numbers", ApiSchedulerName(args.username)>> >>, a)
          IN  SetSession("svc", Disconnect(r.b))
    /\ Return([success |-> TRUE,
               message |-> "User " \o args.username \o " revoked successfully"])
    /\ UNCHANGED <<mgr, dev, top, args, frame, ncalls, upd>>

NextOps ==
    \/ AcConnect
    \/ AcUserAdd
    \/ AcSchedulerAdd
    \/ AcRollback
    \/ ArConnect
    \/ ArUserPrint
    \/ ArUserRemove
    \/ ArSchedulerPrint
    \/ ArSchedulerRemove

SpecOps == InitOps /\ [][NextOps]_vars

----------------------------------------------------------------------------
(* The reader of _send_command on its own: one call on a connected session,
   answered with an arbitrary stream of words *)

\* the words the streams are made of
StreamWords ==
    {"", "!re", "!done", "!trap", "!fatal", "=a=1", "=b=2", "=message=Invalid group",
     "=message=no such item"}

Streams == UNION { [1..n -> StreamWords] : n \in 0..MaxStream }

\* a session whose connect() has just returned True, nothing unread
ConnectedSession ==
    Connect([api |-> NewApi(Host, "svc", "svc-secret", DefaultApiPort, FALSE),
             wire |-> <<>>, transport |-> "none", hist |-> <<>>],
            TRUE, [kind |-> "done", words |-> <<"!done">>]).b

InitReader ==
    /\ mgr \in { c \in ManagerConfigs : ~c.use_tls }
    /\ dev \in [emptyTerm : {FALSE}, script : Streams]
    /\ sess = [s \in Sessions |-> IF s = "svc" THEN ConnectedSession.api ELSE NoApi]
    /\ wire = [s \in Sessions |-> <<>>]
    /\ transport = [s \in Sessions |-> IF s = "svc" THEN "open" ELSE "none"]
    /\ hist = [s \in Sessions |-> IF s = "svc" THEN ConnectedSession.hist ELSE <<>>]
    /\ pc = "reader"
    /\ top = "api"
    /\ args = [ip |-> Host, duration_minutes |-> 0, username_prefix |-> "",
               group |-> <<>>, username |-> ""]
    /\ frame = NoFrame
    /\ result = NoResult
    /\ ncalls = 0
    /\ upd = NoUpdate

\* _send_command("/system/identity/print"); the device answers with its script
ReaderSendCommand ==
    /\ pc = "reader"
    /\ ncalls = 0
    /\ LET r == SendCommand(Bundle("svc"), IdentityCommand, <<>>,
                            [kind |-> "script", words |-> dev.script])
       IN  /\ SetSession("svc", r.b)
           /\ result' = [call |-> "_send_command", raised |-> r.raised,
                         exc |-> r.exc, value |-> r.value]
    /\ ncalls' = 1
    /\ UNCHANGED <<mgr, dev, pc, top, args, frame, upd>>

NextReader == ReaderSendCommand

SpecReader == InitReader /\ [][NextReader]_vars

----------------------------------------------------------------------------
(* The framing codec: _send_length, _read_length, _send_word, _read_word.
   A Python int n with 0 <= n < 2^32 is the pair [hi, lo] with
   n = hi * 65536 + lo; a byte stream is a sequence of numbers 0..255; a str
   is the sequence of its code points.  The byte stream holds whatever was
   written, and recv(n) gives the first n bytes of it. *)

RECURSIVE BitAnd(_, _)
\* a & b
BitAnd(a, b) ==
    IF a = 0 \/ b = 0 THEN 0
    ELSE (IF a % 2 = 1 /\ b % 2 = 1 THEN 1 ELSE 0) + 2 * BitAnd(a \div 2, b \div 2)

RECURSIVE BitOr(_, _)
\* a | b
BitOr(a, b) ==
    IF a = 0 THEN b
    ELSE IF b = 0 THEN a
    ELSE (IF a % 2 = 1 \/ b % 2 = 1 THEN 1 ELSE 0) + 2 * BitOr(a \div 2, b \div 2)

Int32(hi, lo) == [hi |-> hi, lo |-> lo]
\* x < c
Less(x, c) == x.hi < c.hi \/ (x.hi = c.hi /\ x.lo < c.lo)
\* x | m
Or32(x, m) == Int32(BitOr(x.hi, m.hi), BitOr(x.lo, m.lo))
\* (x >> k) & 0xFF for k = 0, 8, 16, 24
ShiftByte(x, k) ==
    IF k = 0 THEN BitAnd(x.lo, 255)
    ELSE IF k = 8 THEN BitAnd(x.lo \div 256, 255)
    ELSE IF k = 16 THEN BitAnd(x.hi, 255)
    ELSE BitAnd(x.hi \div 256, 255)

\* _send_length: the bytes handed to socket.send
SendLength(length) ==
    IF Less(length, Int32(0, 128))                      \* 0x80
    THEN <<length.lo>>
    ELSE IF Less(length, Int32(0, 16384))               \* 0x4000
    THEN LET l == Or32(length, Int32(0, 32768))         \* 0x8000
         IN  <<ShiftByte(l, 8), ShiftByte(l, 0)>>
    ELSE IF Less(length, Int32(32, 0))                  \* 0x200000
    THEN LET l == Or32(length, Int32(192, 0))           \* 0xC00000
         IN  <<ShiftByte(l, 16), ShiftByte(l, 8), ShiftByte(l, 0)>>
    ELSE IF Less(length, Int32(4096, 0))                \* 0x10000000
    THEN LET l == Or32(length, Int32(57344, 0))         \* 0xE0000000
         IN  <<ShiftByte(l, 24), ShiftByte(l, 16), ShiftByte(l, 8), ShiftByte(l, 0)>>
    ELSE <<240, ShiftByte(length, 24), ShiftByte(length, 16),
           ShiftByte(length, 8), ShiftByte(length, 0)>>

\* a length read that takes the first byte for the length
ReadLength_OneByte(stream) ==
    IF stream = <<>> THEN [st |-> "exc", value |-> Int32(0, 0), rest |-> <<>>]
    ELSE [st |-> "ok", value |-> Int32(0, stream[1]), rest |-> Tail(stream)]

\* _read_length: [st, value, rest]; st = "exc" when a recv(1) gets no byte
ReadLength(stream) ==
    LET Short == [st |-> "exc", value |-> Int32(0, 0), rest |-> <<>>]
        Got(v, n) == [st |-> "ok", value |-> v, rest |-> SubSeq(stream, n + 1, Len(stream))]
    IN  IF stream = <<>> THEN Short
        ELSE LET first_byte == stream[1]
             IN  IF first_byte < 128
                 THEN Got(Int32(0, first_byte), 1)
                 ELSE IF first_byte < 192
                 THEN IF Len(stream) < 2 THEN Short
                      ELSE Got(Int32(0, BitAnd(first_byte, 127) * 256 + stream[2]), 2)
                 ELSE IF first_byte < 224
                 THEN IF Len(stream) < 3 THEN Short
                      ELSE Got(Int32(BitAnd(first_byte, 31),
                                     stream[2] * 256 + stream[3]), 3)
                 ELSE IF first_byte < 240
                 THEN IF Len(stream) < 4 THEN Short
                      ELSE Got(Int32(BitAnd(first_byte, 15) * 256 + stream[2],
                                     stream[3] * 256 + stream[4]), 4)
                 ELSE IF Len(stream) < 5 THEN Short
                      ELSE Got(Int32(stream[2] * 256 + stream[3],
                                     stream[4] * 256 + stream[5]), 5)

\* str.encode('utf-8') of one code point
EncodeChar(c) ==
    IF c < 128 THEN <<c>>                                              \* 0x80
    ELSE IF c < 2048                                                   \* 0x800
    THEN <<192 + (c \div 64), 128 + (c % 64)>>
    ELSE IF c < 65536                                                  \* 0x10000
    THEN <<224 + (c \div 4096), 128 + ((c \div 64) % 64), 128 + (c % 64)>>
    ELSE <<240 + (c \div 262144), 128 + ((c \div 4096) % 64),
           128 + ((c \div 64) % 64), 128 + (c % 64)>>

RECURSIVE EncodeUtf8(_)
\* str.encode('utf-8')
EncodeUtf8(word) ==
    IF word = <<>> THEN <<>> ELSE EncodeChar(Head(word)) \o EncodeUtf8(Tail(word))

IsContinuation(b) == 128 <= b /\ b < 192

RECURSIVE DecodeUtf8(_, _)
\* bytes.decode('utf-8'): [ok, word]; ok = FALSE is UnicodeDecodeError
DecodeUtf8(bytes, word) ==
    IF bytes = <<>> THEN [ok |-> TRUE, word |-> word]
    ELSE LET b == bytes[1]
             n == IF b < 128 THEN 1 ELSE IF b < 192 THEN 0 ELSE IF b < 224 THEN 2
                  ELSE IF b < 240 THEN 3 ELSE IF b < 248 THEN 4 ELSE 0
         IN  IF n = 0 \/ Len(bytes) < n
                \/ \E i \in 2..n : ~IsContinuation(bytes[i])
             THEN [ok |-> FALSE, word |-> word]
             ELSE LET c == IF n = 1 THEN b
                           ELSE IF n = 2 THEN (b - 192) * 64 + (bytes[2] - 128)
                           ELSE IF n = 3 THEN (b - 224) * 4096 + (bytes[2] - 128) * 64
                                              + (bytes[3] - 128)
                           ELSE (b - 240) * 262144 + (bytes[2] - 128) * 4096
                                + (bytes[3] - 128) * 64 + (bytes[4] - 128)
                  IN  DecodeUtf8(SubSeq(bytes, n + 1, Len(bytes)), Append(word, c))

\* _send_word that announces the number of characters of the word
SendWord_CharCount(word) ==
    SendLength(Int32(0, Len(word))) \o EncodeUtf8(word)

\* _send_word: the bytes handed to socket.send
SendWord(word) ==
    LET word_bytes == EncodeUtf8(word)
    IN  SendLength(Int32(0, Len(word_bytes))) \o word_bytes

\* _read_word: [st, value, rest]; st = "exc" when it raises. The one
\* recv(length) of line 117 returns the bytes that have arrived, at most
\* length of them: at most delivered bytes, at least one unless the stream
\* has ended, where the read times out
ReadWordRecv(stream, delivered) ==
    LET l == ReadLength(stream)
    IN  IF l.st = "exc" THEN [st |-> "exc", value |-> <<>>, rest |-> <<>>]
        ELSE IF l.value = Int32(0, 0) THEN [st |-> "ok", value |-> <<>>, rest |-> l.rest]
        ELSE LET a == IF delivered < Len(l.rest) THEN delivered ELSE Len(l.rest)
                 n == IF l.value.hi > 0 \/ l.value.lo > a THEN a ELSE l.value.lo
                 d == DecodeUtf8(SubSeq(l.rest, 1, n), <<>>)
             IN  IF n = 0 \/ ~d.ok THEN [st |-> "exc", value |-> <<>>, rest |-> <<>>]
                 ELSE [st |-> "ok", value |-> d.word,
                       rest |-> SubSeq(l.rest, n + 1, Len(l.rest))]

\* _read_word when everything written has arrived before the recv
ReadWord(stream) == ReadWordRecv(stream, Len(stream))

\* inputs of the codec
LengthHalves == {0, 1, 31, 32, 127, 128, 255, 256, 4095, 4096, 16383, 16384,
                 32767, 32768, 65535}
Lengths == { Int32(h, l) : h \in LengthHalves, l \in LengthHalves }
\* A, =, e acute, euro sign, an emoji: one to four bytes each
Chars == {65, 61, 233, 8364, 128512}
CodecWords == UNION { [1..n -> Chars] : n \in 0..MaxWordLen }
AfterBytes == UNION { [1..n -> {0, 128, 255}] : n \in 0..MaxAfter }

InitCodec ==
    /\ mgr \in { c \in ManagerConfigs : ~c.use_tls }
    /\ dev \in [emptyTerm : {FALSE}]
    /\ sess = [s \in Sessions |-> NoApi]
    /\ wire = [s \in Sessions |-> <<>>]
    /\ transport = [s \in Sessions |-> "none"]
    /\ hist = [s \in Sessions |-> <<>>]
    /\ pc = "codec"
    /\ top = "codec"
    /\ args \in [length : Lengths, after : AfterBytes]
                 \cup [word : CodecWords, after : AfterBytes]
    /\ frame = NoFrame
    /\ result = NoResult
    /\ ncalls = 0
    /\ upd = NoUpdate

\* _send_length(args.length) on a byte stream where args.after follows
CodecSendLength ==
    /\ pc = "codec"
    /\ "length" \in DOMAIN args
    /\ wire' = [wire EXCEPT !["svc"] = SendLength(args.length) \o args.after]
    /\ pc' = "length_sent"
    /\ UNCHANGED <<mgr, dev, sess, transport, hist, top, args, frame, result, ncalls,
                 upd>>

\* _read_length() on what was written
CodecReadLength ==
    /\ pc = "length_sent"
    /\ LET r == ReadLength(wire["svc"])
       IN  /\ result' = [call |-> "_read_length", raised |-> r.st = "exc",
                         value |-> r.value]
           /\ wire' = [wire EXCEPT !["svc"] = r.rest]
    /\ pc' = "length_read"
    /\ UNCHANGED <<mgr, dev, sess, transport, hist, top, args, frame, ncalls, upd>>

\* _send_word(args.word) on a byte stream where args.after follows
CodecSendWord ==
    /\ pc = "codec"
    /\ "word" \in DOMAIN args
    /\ wire' = [wire EXCEPT !["svc"] = SendWord(args.word) \o args.after]
    /\ pc' = "word_sent"
    /\ UNCHANGED <<mgr, dev, sess, transport, hist, top, args, frame, result, ncalls,
                 upd>>

\* _read_word() on what was written
CodecReadWord ==
    /\ pc = "word_sent"
    /\ LET r == ReadWord(wire["svc"])
       IN  /\ result' = [call |-> "_read_word", raised |-> r.st = "exc",
                         value |-> r.value]
           /\ wire' = [wire EXCEPT !["svc"] = r.rest]
    /\ pc' = "word_read"
    /\ UNCHANGED <<mgr, dev, sess, transport, hist, top, args, frame, ncalls, upd>>

\* _read_word() on what was written, of which the transport hands over
\* delivered bytes of the word at the first recv and the others later
CodecReadWordSplit ==
    /\ pc = "word_sent"
    /\ \E delivered \in 1..Len(wire["svc"]) :
          LET r == ReadWordRecv(wire["svc"], delivered)
          IN  /\ result' = [call |-> "_read_word", raised |-> r.st = "exc",
                            value |-> r.value]
              /\ wire' = [wire EXCEPT !["svc"] = r.rest]
    /\ pc' = "word_read_split"
    /\ UNCHANGED <<mgr, dev, sess, transport, hist, top, args, frame, ncalls, upd>>

NextCodec ==
    \/ CodecSendLength
    \/ CodecReadLength
    \/ CodecSendWord
    \/ CodecReadWord
    \/ CodecReadWordSplit

SpecCodec == InitCodec /\ [][NextCodec]_vars

----------------------------------------------------------------------------
(* Username generation: consecutive calls of generate_temp_credentials, of
   the manager (mikrotik_manager.py) and of the module mikrotik_api.py.
   frame.now is the clock of the host in seconds, result.usernames the
   usernames returned so far. *)

\* the prefixes the calls are made with (the defaults of the two functions)
GenPrefixes == {"temp-", "temp_"}
\* outcomes of the four secrets.choice draws
RandSuffixes == {"k3x9", "a0b1"}
\* seconds the clock may have advanced between two calls
ClockSteps == {0, 1}

\* MikroTikAPI module: prefix and the last six digits of the timestamp
GenerateUsernameModule(prefix, ts) ==
    prefix \o SubSeq(Str(ts), Len(Str(ts)) - 5, Len(Str(ts)))

InitGen ==
    /\ mgr \in { c \in ManagerConfigs : ~c.use_tls }
    /\ dev \in [emptyTerm : {FALSE}]
    /\ sess = [s \in Sessions |-> NoApi]
    /\ wire = [s \in Sessions |-> <<>>]
    /\ transport = [s \in Sessions |-> "none"]
    /\ hist = [s \in Sessions |-> <<>>]
    /\ pc = "gen"
    /\ top = "generate_temp_credentials"
    /\ args \in [prefix : GenPrefixes]
    /\ frame \in [now : Clock]
    /\ result = [usernames |-> <<>>]
    /\ ncalls = 0
    /\ upd = NoUpdate

\* MikroTikManager.generate_temp_credentials(prefix)
GenManagerCall ==
    /\ pc = "gen"
    /\ ncalls < MaxCalls
    /\ \E dt \in ClockSteps, sfx \in RandSuffixes :
          /\ frame' = [now |-> frame.now + dt]
          /\ result' = [usernames |-> Append(result.usernames,
                            GenerateUsername(args.prefix, frame.now + dt, sfx))]
    /\ ncalls' = ncalls + 1
    /\ UNCHANGED <<mgr, dev, sess, wire, transport, hist, pc, top, args, upd>>

\* mikrotik_api.generate_temp_credentials(prefix)
GenModuleCall ==
    /\ pc = "gen"
    /\ ncalls < MaxCalls
    /\ \E dt \in ClockSteps :
          /\ frame' = [now |-> frame.now + dt]
          /\ result' = [usernames |-> Append(result.usernames,
                            GenerateUsernameModule(args.prefix, frame.now + dt))]
    /\ ncalls' = ncalls + 1
    /\ UNCHANGED <<mgr, dev, sess, wire, transport, hist, pc, top, args, upd>>

NextGen ==
    \/ GenManagerCall
    \/ GenModuleCall

SpecGen == InitGen /\ [][NextGen]_vars

----------------------------------------------------------------------------
(* MikroTikManager.map_role_to_group *)

\* pieces of role names
RoleParts ==
    {"", "admin", "Admin", "full", "write", "read", "_access", "_only", "root", " "}

\* the roles a portal user may carry: None (the empty sequence) or a string
Roles == {<<>>} \cup { <<x \o y>> : x \in RoleParts, y \in RoleParts }

\* lines 196-201
RoleMapping ==
    [r \in {"admin", "full_access", "write_access", "read_only"} |->
        CASE r = "admin" -> "full"
          [] r = "full_access" -> "full"
          [] r = "write_access" -> "write"
          [] r = "read_only" -> "read"]

\* a mapping that gives the widest group to a role it does not know
MapRoleToGroup_DefaultFull(role) ==
    IF Len(role) = 1 /\ role[1] \in DOMAIN RoleMapping
    THEN RoleMapping[role[1]]
    ELSE "full"

\* line 202: mapping.get(role, 'read')
MapRoleToGroup(role) ==
    IF Len(role) = 1 /\ role[1] \in DOMAIN RoleMapping
    THEN RoleMapping[role[1]]
    ELSE "read"

InitRoles ==
    /\ mgr \in ManagerConfigs
    /\ dev \in [emptyTerm : {FALSE}]
    /\ sess = [s \in Sessions |-> NoApi]
    /\ wire = [s \in Sessions |-> <<>>]
    /\ transport = [s \in Sessions |-> "none"]
    /\ hist = [s \in Sessions |-> <<>>]
    /\ pc = "role"
    /\ top = "map_role_to_group"
    /\ args \in [role : Roles]
    /\ frame = NoFrame
    /\ result = NoResult
    /\ ncalls = 0
    /\ upd = NoUpdate

\* map_role_to_group(role)
MapRole ==
    /\ pc = "role"
    /\ result' = [group |-> MapRoleToGroup(args.role)]
    /\ pc' = "role_mapped"
    /\ UNCHANGED <<mgr, dev, sess, wire, transport, hist, top, args, frame, ncalls,
                   upd>>

NextRoles ==
    \/ MapRole

SpecRoles == InitRoles /\ [][NextRoles]_vars

----------------------------------------------------------------------------
(* Reading the history of a session *)

\* the commands written on session s: the command word and its first argument
CommandsOn(s) ==
    LET sends == SelectSeq(hist[s], LAMBDA e : e.ev = "send")
    IN  [i \in 1..Len(sends) |-> SubSeq(sends[i].words, 1, 2)]

\* the _send_command call that wrote command on session s raised
RaisedAfter(s, command) ==
    \E i \in 1..(Len(hist[s]) - 1) :
        /\ hist[s][i].ev = "send" /\ hist[s][i].words[1] = command
        /\ hist[s][i + 1].ev = "raise"

\* what that call raised
ExcOf(s, command) ==
    LET i == CHOOSE j \in 1..(Len(hist[s]) - 1) :
                 /\ hist[s][j].ev = "send" /\ hist[s][j].words[1] = command
                 /\ hist[s][j + 1].ev = "raise"
    IN  hist[s][i + 1].exc

\* the kinds of the answers the device gave to command on session s
AnswerKinds(s, command) ==
    { hist[s][i].answer.kind :
        i \in { j \in 1..Len(hist[s]) : hist[s][j].ev = "send"
                                        /\ hist[s][j].words[1] = command } }

\* connect() saw the login succeed on session s
Authenticated(s) == \E i \in 1..Len(hist[s]) : hist[s][i].ev = "auth"

\* the session is authenticated when entry i of h is made
AuthenticatedAt(h, i) ==
    \E j \in 1..(i - 1) :
        /\ h[j].ev = "auth"
        /\ \A k \in (j + 1)..(i - 1) : h[k].ev \notin {"close", "socket"}

\* the device sent every answer on session s whole
AllComplete(s) ==
    \A i \in 1..Len(hist[s]) :
        hist[s][i].ev \in {"send", "login"}
            => hist[s][i].answer.kind \in {"done", "trap", "fatal"}

TimeoutExc == "Command execution failed: " \o TimedOut

RECURSIVE RepliesIn(_, _, _)
\* the !re sentences of an answer whose sentences all end with an empty word:
\* words is the answer, cur the attributes of the !re sentence being read
\* (<<>> outside of one, else <<dict>>)
RepliesIn(words, cur, acc) ==
    IF words = <<>> THEN acc
    ELSE LET w == Head(words)
         IN  IF w = ""
             THEN RepliesIn(Tail(words), <<>>, acc \o cur)
             ELSE IF w = "!re"
             THEN RepliesIn(Tail(words), <<EmptyDict>>, acc)
             ELSE IF cur # <<>> /\ StartsWith(w, "=")
             THEN LET kv == Partition(SubSeq(w, 2, Len(w)))
                  IN  RepliesIn(Tail(words), <<DictSet(cur[1], kv[1], kv[2])>>, acc)
             ELSE RepliesIn(Tail(words), cur, acc)

----------------------------------------------------------------------------
(* Properties *)

\* C1: _send_command writes a command only on a session that connect() saw
\* log in and that was not disconnected since; a call made in any other
\* session state raises "Not connected" and writes nothing.
C1_WritesOnlyWhenAuthenticated ==
    \A s \in Sessions : \A i \in 1..Len(hist[s]) :
        /\ hist[s][i].ev = "send" => AuthenticatedAt(hist[s], i)
        /\ (hist[s][i].ev = "call" /\ ~AuthenticatedAt(hist[s], i))
              => /\ hist[s][i + 1].ev = "raise"
                 /\ hist[s][i + 1].exc = NotConnected

\* C1 witness: a command was written, the session was disconnected, and a
\* later call was refused
C1_Witness ==
    \E i, j, k \in 1..Len(hist["svc"]) :
        /\ i < j /\ j < k
        /\ hist["svc"][i].ev = "send"
        /\ hist["svc"][j].ev = "close"
        /\ hist["svc"][k].ev = "raise" /\ hist["svc"][k].exc = NotConnected

\* C2: when test_connection, create_temporary_user or revoke_temporary_user
\* has returned, no session it opened still has an open transport.
C2_TransportsClosedOnReturn ==
    pc = "done" => \A s \in Sessions : transport[s] # "open"

\* C3: when the scheduler step of create_temporary_user fails, the commands
\* written on the service session are /user/add, /system/scheduler/add and
\* /user/remove of the generated username, in this order, and no record is
\* returned before the /user/remove is written.
C3_RollbackBeforeFailure ==
    (top = "create_temporary_user" /\ RaisedAfter("svc", "/system/scheduler/add")) =>
        LET u == frame.temp_username
            two == << <<"/user/add", "=name=" \o u>>,
                      <<"/system/scheduler/add", "=name=cleanup-" \o u>> >>
        IN  IF pc = "done"
            THEN /\ CommandsOn("svc") = Append(two, <<"/user/remove", "=numbers=" \o u>>)
                 /\ ~result.success
            ELSE /\ CommandsOn("svc") = two
                 /\ result = NoResult

\* C3 witness: create_temporary_user returned after its scheduler step failed
C3_Witness ==
    /\ top = "create_temporary_user" /\ pc = "done"
    /\ RaisedAfter("svc", "/system/scheduler/add")

\* C4: with a device that ends every sentence with an empty word,
\* create_temporary_user returns success only when /user/add and
\* /system/scheduler/add were both answered with !done and no trap; a trap or
\* fatal answer to /system/scheduler/add gives a failure record.
C4_SuccessOnlyWhenBothDone ==
    (dev.emptyTerm /\ top = "create_temporary_user" /\ pc = "done"
       /\ AllComplete("svc") /\ result.success) =>
        /\ AnswerKinds("svc", "/user/add") = {"done"}
        /\ AnswerKinds("svc", "/system/scheduler/add") = {"done"}

\* C5: with a device that ends every sentence with an empty word, the list a
\* _send_command call returns holds exactly the !re replies of the answer to
\* that call's own command.
C5_RepliesOfOwnCommand ==
    (dev.emptyTerm /\ AllComplete("svc")) =>
        \A i \in 2..Len(hist["svc"]) :
            hist["svc"][i].ev = "ret" =>
                /\ hist["svc"][i - 1].answer.kind = "done"
                /\ hist["svc"][i].value
                      = RepliesIn(hist["svc"][i - 1].answer.words, <<>>, <<>>)

\* C6: when the rollback /user/remove fails, create_temporary_user returns the
\* failure of /system/scheduler/add, not that of the rollback.
C6_RollbackFailureNotReported ==
    (top = "create_temporary_user" /\ pc = "done" /\ RaisedAfter("svc", "/user/remove")) =>
        result = [success |-> FALSE,
                  error |-> "Failed to create cleanup scheduler: "
                            \o ExcOf("svc", "/system/scheduler/add")]

\* C6 witness: the rollback failed, with another error than the scheduler step
C6_Witness ==
    /\ top = "create_temporary_user" /\ pc = "done"
    /\ RaisedAfter("svc", "/user/remove")
    /\ ExcOf("svc", "/user/remove") # ExcOf("svc", "/system/scheduler/add")

\* C7: a revoke_temporary_user that logged in has written /user/remove for the
\* username and then /system/scheduler/remove for cleanup-<username> when it
\* returns, whatever the answer to /user/remove.
C7_SchedulerRemoveAlwaysWritten ==
    (top = "revoke_temporary_user" /\ pc = "done" /\ Authenticated("svc")) =>
        CommandsOn("svc") =
            << <<"/user/remove", "=numbers=" \o args.username>>,
               <<"/system/scheduler/remove", "=numbers=cleanup-" \o args.username>> >>

\* C7 witness: the revoke returned after /user/remove was answered with a trap
C7_Witness ==
    /\ top = "revoke_temporary_user" /\ pc = "done"
    /\ RaisedAfter("svc", "/user/remove")
    /\ ExcOf("svc", "/user/remove")
          = "Command execution failed: Command failed: " \o TrapMsg("/user/remove")

\* C8: revoke_temporary_user returns success exactly when the probe and the
\* login of its session succeeded.
C8_RevokeSuccessIffLoggedIn ==
    (top = "revoke_temporary_user" /\ pc = "done") =>
        (result.success <=> (frame.connection_test.success /\ Authenticated("svc")))

\* C8 witness: success although both removals failed
C8_Witness ==
    /\ top = "revoke_temporary_user" /\ pc = "done" /\ result.success
    /\ RaisedAfter("svc", "/user/remove")
    /\ RaisedAfter("svc", "/system/scheduler/remove")

\* C9: every operation of the manager ends by returning a record with a
\* success flag, and a record with success = false holds an error string.
C9_AlwaysARecord ==
    /\ pc # "done" => ENABLED Next
    /\ pc = "done" =>
          /\ "success" \in DOMAIN result
          /\ result.success \in BOOLEAN
          /\ ~result.success => ("error" \in DOMAIN result /\ Len(result.error) > 0)

\* C9 witness: a failure returned after a command timed out
C9_Witness ==
    /\ pc = "done" /\ ~result.success
    /\ \E i \in 1..Len(hist["svc"]) :
          hist["svc"][i].ev = "raise" /\ hist["svc"][i].exc = TimeoutExc

\* C10: after a command timed out on the session of create_temporary_user or
\* revoke_temporary_user, the next thing done on the session is its close.
C10_CloseAfterTimeout ==
    top \in {"create_temporary_user", "revoke_temporary_user"} =>
        \A i \in 1..Len(hist["svc"]) :
            (hist["svc"][i].ev = "raise" /\ hist["svc"][i].exc = TimeoutExc)
                => (i = Len(hist["svc"]) \/ hist["svc"][i + 1].ev = "close")

\* the login exchange of the last connect() on session s: <<>> when connect()
\* did not get as far as writing /login, else <<the "login" entry>>
LastLogin(s) ==
    LET h == hist[s]
        k == CHOOSE i \in 1..Len(h) :
                 h[i].ev = "socket" /\ \A j \in (i + 1)..Len(h) : h[j].ev # "socket"
    IN  IF k < Len(h) /\ h[k + 1].ev = "login" THEN <<h[k + 1]>> ELSE <<>>

\* C11: connect() returns True exactly when the first word read back after
\* /login, =name=, =password= and the empty word is "!done"; after any other
\* first word, or when the transport fails, it returns False and leaves the
\* session not authenticated with its transport closed.
C11_ConnectIffFirstWordDone ==
    ("call" \in DOMAIN result /\ result.call = "connect") =>
        LET l == LastLogin("svc")
        IN  /\ result.ok <=> /\ l # <<>>
                              /\ l[1].words = LoginWords(sess["svc"])
                              /\ l[1].answer.words # <<>>
                              /\ l[1].answer.words[1] = "!done"
            /\ result.ok => sess["svc"].connected /\ transport["svc"] = "open"
            /\ ~result.ok => /\ ~sess["svc"].connected
                              /\ sess["svc"].socket = "None"
                              /\ transport["svc"] = "closed"
                              /\ ~AuthenticatedAt(hist["svc"], Len(hist["svc"]) + 1)

\* C11 witness: a connect() whose login was answered with a word that only
\* starts like !done returned False
C11_Witness ==
    /\ "call" \in DOMAIN result /\ result.call = "connect" /\ ~result.ok
    /\ LastLogin("svc") # <<>>
    /\ LastLogin("svc")[1].answer.words # <<>>
    /\ LastLogin("svc")[1].answer.words[1] = "!donex"
    /\ transport["svc"] = "closed"

\* a response as the device frames it: sentences that start with a control
\* word and end with an empty word or with the control word of the next one
IsControl(w) == StartsWith(w, "!")
WellFramed(stream) ==
    /\ stream # <<>>
    /\ IsControl(stream[1])
    /\ \A i \in 1..(Len(stream) - 1) : stream[i] = "" => IsControl(stream[i + 1])

\* the number of !re control words before the first !done
RepliesBeforeDone(stream) ==
    Cardinality({ i \in 1..Len(stream) :
                    /\ stream[i] = "!re"
                    /\ \A j \in 1..(i - 1) : stream[j] # "!done" })

\* the call of the reader specification has returned a list
ReaderReturned == pc = "reader" /\ ncalls = 1 /\ ~result.raised

AfterDone(stream) ==
    LET ks == { k \in 1..Len(stream) : stream[k] = "!done" }
    IN  IF ks = {} THEN <<>>
        ELSE SubSeq(stream, 1 + (CHOOSE k \in ks : \A j \in ks : k <= j), Len(stream))

IsSuffix(t, u) == Len(t) <= Len(u) /\ SubSeq(u, Len(u) - Len(t) + 1, Len(u)) = t

\* C13: _send_command reads nothing after the !done of the response: every
\* word that follows the first !done is still unread when the call ends, and
\* when the call returns on a framed response exactly those words are unread;
\* !re,=a=1,=b=2,"",!done gives the one reply {a:"1", b:"2"}.
C13_NothingReadAfterDone ==
    (pc = "reader" /\ ncalls = 1) =>
        /\ IsSuffix(AfterDone(dev.script), wire["svc"])
        /\ (~result.raised /\ WellFramed(dev.script))
              => wire["svc"] = AfterDone(dev.script)
        /\ dev.script = <<"!re", "=a=1", "=b=2", "", "!done">>
              => /\ ~result.raised
                 /\ result.value = <<DictSet(DictSet(EmptyDict, "a", "1"), "b", "2")>>

\* C13 witness: after !re,=a=1,"",!done,"" the call returned one reply and
\* the empty word sent after !done is still unread
C13_Witness ==
    /\ ReaderReturned
    /\ dev.script = <<"!re", "=a=1", "", "!done", "">>
    /\ Len(result.value) = 1
    /\ wire["svc"] = <<"">>

IsTrap(w) == StartsWith(w, "!trap") \/ StartsWith(w, "!fatal")

\* the reader comes to a !trap or !fatal sentence of stream: the stream is
\* framed and a !trap or !fatal comes before any !done
ReachesTrap(stream) ==
    /\ WellFramed(stream)
    /\ \E t \in 1..Len(stream) :
          IsTrap(stream[t]) /\ \A j \in 1..(t - 1) : stream[j] # "!done"

\* the index of the first !trap or !fatal
TrapAt(stream) ==
    CHOOSE t \in 1..Len(stream) :
        IsTrap(stream[t]) /\ \A j \in 1..(t - 1) : ~IsTrap(stream[j])

\* the indexes after t of the words that end the sentence that starts at t
EndsAfter(stream, t) ==
    { e \in (t + 1)..Len(stream) : stream[e] = "" \/ IsControl(stream[e]) }

\* the value of =message= among the words t+1..e-1, else "Unknown error"
MessageIn(stream, t, e) ==
    LET ms == { i \in (t + 1)..(e - 1) : StartsWith(stream[i], "=message=") }
    IN  IF ms = {} THEN "Unknown error"
        ELSE LET m == stream[CHOOSE i \in ms : \A j \in ms : j <= i]
             IN  SubSeq(m, 10, Len(m))

RestrictedQuery == CommandWords(IdentityCommand, ProplistName)
UnrestrictedQuery == CommandWords(IdentityCommand, <<>>)

\* the indexes of hist[s] at which the words ws were written
WrittenAt(s, ws) ==
    { i \in 1..Len(hist[s]) : hist[s][i].ev = "send" /\ hist[s][i].words = ws }

\* what the identity resolution on session s gives: name, else identity, of
\* the first record of the last list a query returned; none when a query
\* raised or no query was made
ResolvedOn(s) ==
    LET h    == hist[s]
        rets == { i \in 1..Len(h) : h[i].ev = "ret" }
    IN  IF rets = {} \/ \E i \in 1..Len(h) : h[i].ev = "raise" THEN <<>>
        ELSE LET v == h[CHOOSE i \in rets : \A j \in rets : j <= i].value
             IN  IF v = <<>> THEN <<>>
                 ELSE OrElse(DictGet(v[1], "name"), DictGet(v[1], "identity"))

\* C15: in the identity resolution of test_connection (session probe) and of
\* the temporary-credential step (session temp), the unrestricted
\* /system/identity/print is written at most once, and only right after the
\* restricted query returned an empty list or a first record without a name
\* and without an identity; the resolution gives the first record's name,
\* else its identity, else none.
C15_FallbackOnceAfterUnusable ==
    /\ \A s \in {"probe", "temp"} :
          /\ Cardinality(WrittenAt(s, UnrestrictedQuery)) <= 1
          /\ Cardinality(WrittenAt(s, RestrictedQuery)) <= 1
          /\ \A i \in WrittenAt(s, UnrestrictedQuery) :
                /\ i > 3
                /\ hist[s][i - 3].ev = "send" /\ hist[s][i - 3].words = RestrictedQuery
                /\ hist[s][i - 2].ev = "ret"
                /\ LET v == hist[s][i - 2].value
                   IN  \/ v = <<>>
                       \/ /\ ~Truthy(DictGet(v[1], "name"))
                          /\ ~Truthy(DictGet(v[1], "identity"))
    /\ pc = "tc_result" => frame.identity = ResolvedOn("probe")
    /\ (pc = "cr_finish" /\ hist["temp"] # <<>>)
          => frame.device_identity = ResolvedOn("temp")

\* C15 witness: test_connection wrote both queries and took the identity
\* from the answer to the unrestricted one
C15_Witness ==
    /\ pc = "tc_result"
    /\ WrittenAt("probe", RestrictedQuery) # {}
    /\ WrittenAt("probe", UnrestrictedQuery) # {}
    /\ Truthy(frame.identity)

\* the _send_command call that wrote command on session s returned
ReturnedAfter(s, command) ==
    \E i \in 1..(Len(hist[s]) - 1) :
        /\ hist[s][i].ev = "send" /\ hist[s][i].words[1] = command
        /\ hist[s][i + 1].ev = "ret"

\* create_temporary_user has returned after both of its add calls returned
CreatedBoth ==
    /\ top = "create_temporary_user" /\ pc = "done"
    /\ ReturnedAfter("svc", "/user/add")
    /\ ReturnedAfter("svc", "/system/scheduler/add")

\* the identity resolution on the temporary session failed: the login was
\* not accepted or a query raised
TempResolutionFailed ==
    /\ hist["temp"] # <<>>
    /\ \/ ~Authenticated("temp")
       \/ \E i \in 1..Len(hist["temp"]) : hist["temp"][i].ev = "raise"

\* C16: a failure while the device identity is resolved, on the probe session
\* or on the temporary-credential session, never makes a
\* create_temporary_user whose /user/add and /system/scheduler/add both
\* succeeded fail: it returns success, with identity none when neither
\* session gave one.
C16_IdentityFailureSwallowed ==
    CreatedBoth =>
        /\ result.success
        /\ result.username = frame.temp_username
        /\ (~Truthy(DictGet(frame.connection_test, "identity")[1])
               /\ TempResolutionFailed)
              => result.device_identity = <<>>

\* C16 witness: the probe session gave no identity, the query on the
\* temporary session raised, and create_temporary_user returned success
\* without an identity
C16_Witness ==
    /\ CreatedBoth
    /\ ~Truthy(DictGet(frame.connection_test, "identity")[1])
    /\ \E i \in 1..Len(hist["temp"]) : hist["temp"][i].ev = "raise"
    /\ result.success
    /\ result.device_identity = <<>>

\* the TCP reachability probe of the running create_temporary_user failed
ProbeFailed ==
    /\ top = "create_temporary_user"
    /\ "success" \in DOMAIN frame.connection_test
    /\ ~frame.connection_test.success

\* C17: when the TCP reachability probe fails, create_temporary_user returns
\* a failure record and nothing is written to the device: no session is
\* opened, no login is attempted, no /user/add is sent.
C17_UnreachableWritesNothing ==
    ProbeFailed =>
        /\ pc \in {"cr_prepare", "done"}
        /\ \A s \in Sessions :
              hist[s] = <<>> /\ transport[s] = "none" /\ sess[s].socket = "None"
        /\ pc = "done" => /\ ~result.success
                          /\ StartsWith(result.error, "Cannot connect to device: ")

\* C17 witness: create_temporary_user returned its failure after the probe
\* found the port unreachable
C17_Witness ==
    /\ ProbeFailed
    /\ pc = "done"
    /\ ~result.success
    /\ StartsWith(frame.connection_test.error, "Cannot reach port ")

\* C18: for every integer L with 0 <= L < 2^32 the bytes that _send_length(L)
\* writes are read back by _read_length as L, and exactly those bytes are
\* consumed: what lay behind them on the stream is what is left.
C18_LengthRoundTrip ==
    pc = "length_read" =>
        /\ ~result.raised
        /\ result.value = args.length
        /\ wire["svc"] = args.after

\* C18 witness: 0x10000000, the first length written with five bytes, was
\* read back with a byte behind it left on the stream
C18_Witness ==
    /\ pc = "length_read"
    /\ args.length = Int32(4096, 0)
    /\ result.value = Int32(4096, 0)
    /\ wire["svc"] = <<255>>

\* C19: for every string s the bytes that _send_word(s) writes are read back
\* by _read_word as s; the empty string is written as the single byte 0 and
\* read back as the empty string; the readers take an empty word for the end
\* of a sentence, never for an attribute.
C19_WordRoundTrip ==
    /\ pc = "word_read" =>
          /\ ~result.raised
          /\ result.value = args.word
          /\ wire["svc"] = args.after
    /\ (pc = "word_sent" /\ args.word = <<>>) => wire["svc"] = <<0>> \o args.after
    /\ ReadReplyAttrs(<<"", "=a=1", "">>, EmptyDict)
          = [st |-> "end", data |-> EmptyDict, rest |-> <<"=a=1", "">>,
             next_control |-> <<>>]
    /\ ReadTrapAttrs(<<"", "=message=m", "">>, "Unknown error")
          = [st |-> "end", msg |-> "Unknown error", rest |-> <<"=message=m", "">>]

\* C19 witness: a word of a two-byte and a four-byte character was read back
C19_Witness ==
    /\ pc = "word_read"
    /\ args.word = <<233, 128512>>
    /\ result.value = <<233, 128512>>

\* C20: over consecutive calls of generate_temp_credentials with the same
\* prefix, also within one clock second, no username is returned twice.
C20_UsernamesNeverRepeat ==
    pc = "gen" =>
        \A i, j \in 1..Len(result.usernames) :
            i # j => result.usernames[i] # result.usernames[j]

\* the text t is HH:MM:SS of two digits each and denotes exactly d minutes
DenotesMinutes(t, d) ==
    \E h \in 0..99, m \in 0..59 :
        /\ t = Digit(h \div 10) \o Digit(h % 10) \o ":"
               \o Digit(m \div 10) \o Digit(m % 10) \o ":00"
        /\ h * 60 + m = d

\* the /system/scheduler/add commands written so far on session s
SchedulerAddsOn(s) ==
    { i \in 1..Len(hist[s]) :
        hist[s][i].ev = "send" /\ hist[s][i].words[1] = "/system/scheduler/add" }

\* C21: every /system/scheduler/add written by create_temporary_user, of the
\* manager and of the protocol client alike, carries an interval HH:MM:SS
\* with HH = duration div 60, MM = duration mod 60 and SS = 00, that is
\* exactly duration_minutes minutes.
C21_IntervalIsDuration ==
    \A s \in Sessions : \A i \in SchedulerAddsOn(s) :
        \E j \in 1..Len(hist[s][i].words) :
            /\ StartsWith(hist[s][i].words[j], "=interval=")
            /\ DenotesMinutes(SubSeq(hist[s][i].words[j], 11,
                                     Len(hist[s][i].words[j])),
                              args.duration_minutes)

\* the closes of one transport: no two with no new socket in between
ClosedAtMostOnce(s) ==
    \A i, j \in 1..Len(hist[s]) :
        (i < j /\ hist[s][i].ev = "close" /\ hist[s][j].ev = "close") =>
            \E k \in (i + 1)..(j - 1) : hist[s][k].ev = "socket"

\* C22: disconnect() is idempotent: called any number of times in any
\* session state, also when closing the transport raises, it never raises,
\* leaves the session with no transport and not authenticated, and closes a
\* given transport at most once.
C22_DisconnectIdempotent ==
    /\ ClosedAtMostOnce("svc")
    /\ (pc = "api" /\ ncalls > 0 /\ result.call = "disconnect") =>
          /\ ~result.raised
          /\ sess["svc"].socket = "None"
          /\ ~sess["svc"].connected
          /\ transport["svc"] # "open"

\* C22 witness: after two transports were closed, the second by a close()
\* that raised, disconnect() was called once more
C22_Witness ==
    /\ pc = "api"
    /\ ncalls >= 3
    /\ result.call = "disconnect"
    /\ Len(hist["svc"]) >= 2
    /\ hist["svc"][Len(hist["svc"])].ev = "close"
    /\ hist["svc"][Len(hist["svc"])].exc = "close failed"
    /\ \E i \in 1..(Len(hist["svc"]) - 1) : hist["svc"][i].ev = "close"

\* the settings in force before and after the update: the pairs of service
\* user and password that belong together
SettingsPairs ==
    { <<c.service_user, c.service_pass>> : c \in ManagerConfigs }
    \cup { <<f.service_user, f.service_pass>> : f \in SettingsForms }

C24_RoleMapping ==
    pc = "role_mapped" =>
        result.group =
            (IF args.role \in {<<"admin">>, <<"full_access">>} THEN "full"
             ELSE IF args.role = <<"write_access">> THEN "write"
             ELSE "read")

\* C24 witness: a role that only differs from a known one by its case was
\* mapped to read
C24_Witness ==
    /\ pc = "role_mapped"
    /\ args.role = <<"Admin">>
    /\ result.group = "read"

\* the words of the script that the call of the reader specification has read
ReadByReader == SubSeq(dev.script, 1, Len(dev.script) - Len(wire["svc"]))

\* C25: _send_command returns a reply list only after it has read !done: an
\* empty word, or an unknown control word with its attributes and its
\* terminator, read where a sentence should begin is skipped and does not end
\* the command, and the !re replies that follow are still returned.
C25_ReturnsOnlyAfterDone ==
    ReaderReturned =>
        /\ \E i \in 1..Len(ReadByReader) : StartsWith(ReadByReader[i], "!done")
        /\ Len(result.value) = RepliesBeforeDone(dev.script)

\* the value of the first =message= among the words t+1..e-1, else
\* "Unknown error"
FirstMessageIn(stream, t, e) ==
    LET ms == { i \in (t + 1)..(e - 1) : StartsWith(stream[i], "=message=") }
    IN  IF ms = {} THEN "Unknown error"
        ELSE LET m == stream[CHOOSE i \in ms : \A j \in ms : i <= j]
             IN  SubSeq(m, 10, Len(m))

\* C26: when a !trap or !fatal sentence carries more than one =message=
\* attribute, the message that _send_command reports is the first one read.
C26_FirstMessageReported ==
    (pc = "reader" /\ ncalls = 1 /\ ReachesTrap(dev.script)) =>
        LET t  == TrapAt(dev.script)
            es == EndsAfter(dev.script, t)
        IN  es # {} =>
               LET e == CHOOSE x \in es : \A y \in es : x <= y
               IN  /\ result.raised
                   /\ result.exc = "Command execution failed: Command failed: "
                                       \o FirstMessageIn(dev.script, t, e)

\* the user the running create or revoke is about
UserOfCall ==
    IF top = "create_temporary_user" THEN frame.temp_username ELSE args.username

\* the word that names the scheduler in a scheduler command, none for others
SchedulerWord(command, name) ==
    IF command \in {"/system/scheduler/add", "/system/scheduler/print"}
    THEN <<"=name=" \o name>>
    ELSE IF command = "/system/scheduler/remove" THEN <<"=numbers=" \o name>>
    ELSE <<>>

\* C27: the scheduler that a create installs and the scheduler that a revoke
\* removes have the same name, cleanup-<username>, on every create path and
\* every revoke path of the client, the manager's and the protocol client's.
C27_OneSchedulerName ==
    \A s \in Sessions : \A i \in 1..Len(hist[s]) :
        hist[s][i].ev = "send" =>
            LET w == SchedulerWord(hist[s][i].words[1], "cleanup-" \o UserOfCall)
            IN  w # <<>> => \E j \in 1..Len(hist[s][i].words) :
                                hist[s][i].words[j] = w[1]

\* the commands written on session s that name the command c and carry the
\* word w, and that the device carried out
CarriedOut(s, c, w) ==
    { i \in 1..Len(hist[s]) :
        /\ hist[s][i].ev = "send"
        /\ hist[s][i].words[1] = c
        /\ \E j \in 1..Len(hist[s][i].words) : hist[s][i].words[j] = w
        /\ hist[s][i].answer.kind = "done" }

\* no transport failure on session s, and the device carried out the login
\* and every command it received on it
Undisturbed(s) ==
    \A i \in 1..Len(hist[s]) :
        /\ hist[s][i].ev \in {"send", "login"} => hist[s][i].answer.kind = "done"
        /\ hist[s][i].ev = "socket" => i < Len(hist[s]) /\ hist[s][i + 1].ev = "login"

\* the user that the create added is on the device: added and not removed
TempUserExists ==
    /\ CarriedOut("svc", "/user/add", "=name=" \o frame.temp_username) # {}
    /\ CarriedOut("svc", "/user/remove", "=numbers=" \o frame.temp_username) = {}

\* the scheduler cleanup-<username> is on the device
TempSchedulerInstalled ==
    CarriedOut("svc", "/system/scheduler/add",
               "=name=cleanup-" \o frame.temp_username) # {}

\* C28: after create_temporary_user has returned, with success or with
\* failure, when no transport failure interrupted the call and the device
\* carried out every command it received, a user that the call added and that
\* is still on the device has its scheduler cleanup-<username> installed.
C28_NoUserWithoutScheduler ==
    (pc = "done" /\ top = "create_temporary_user" /\ Undisturbed("svc")) =>
        (TempUserExists => TempSchedulerInstalled)

\* C28 witness: on a device that ends its sentences with an empty word, where
\* the manager reads each answer one command late, an undisturbed create has
\* returned with the user and its scheduler on the device
C28_Witness ==
    /\ pc = "done" /\ top = "create_temporary_user"
    /\ dev.emptyTerm
    /\ Undisturbed("svc")
    /\ result.success
    /\ TempUserExists
    /\ TempSchedulerInstalled

\* C29: every session the manager opens to a device (the probe of
\* test_connection, the service and temporary-credential sessions of
\* create_temporary_user, the session of revoke_temporary_user) is opened
\* with the manager's configured port and its configured TLS flag.
C29_SessionsUseConfiguredTransport ==
    \A s \in Sessions :
        sess[s] # NoApi =>
            /\ sess[s].port = mgr.api_port
            /\ sess[s].use_tls = mgr.use_tls

\* C30: _read_word returns exactly the bytes that the length prefix
\* announces and leaves the stream at the prefix of the next word, however
\* the transport splits the bytes across receive calls; a stream that ends
\* inside a word is reported as a failure, never as a shorter word.
C30_WholeWordUnderSplit ==
    pc = "word_read_split" =>
        /\ ~result.raised
        /\ result.value = args.word
        /\ wire["svc"] = args.after

====
